---- MODULE Spec2Model ----
(***************************************************************************)
(* A model of the UI-state interaction engine of appian_locust:            *)
(*   - UiReconciler (src/.venv/Lib/site-packages/appian_locust/            *)
(*     _ui_reconciler.py),                                                 *)
(*   - the component search of utilities/helper.py,                        *)
(*   - _SaveRequestBuilder (_save_request_builder.py),                     *)
(*   - the verbs of SailUiForm (uiform/uiform.py) that compose them,       *)
(*   - GridInteractor (_grid_interactor.py).                               *)
(*                                                                         *)
(* JSON values are encoded uniformly, so that any two of them can be       *)
(* compared: a node is a record [t, s, kids] where t is "dict", "list",    *)
(* "leaf" or "none" (Python's None / an absent key), s is the scalar of a  *)
(* leaf (a string; "" is the falsy scalar) and kids is the ordered         *)
(* sequence of [key, val] pairs of a dict (insertion order, keys unique)   *)
(* or of a list (key = "").                                                *)
(***************************************************************************)
EXTENDS Integers, Sequences, FiniteSets, TLC

VARIABLES
    \* ---- SailUiForm (specification Spec)
    state,        \* SailUiForm._state, the current snapshot
    context,      \* SailUiForm.context
    uuid,         \* SailUiForm.uuid
    form_url,     \* SailUiForm.form_url
    pc,           \* position of the single caller inside a verb
    sent,         \* the save requests posted by the current/last verb, in order
    resp,         \* the server response handed to the last _reconcile_state
    outcome,      \* how the last verb ended
    nverbs,       \* number of verbs started so far
    verb_start,   \* the form's fields as they were when the last verb began
    call,         \* the last verb called and its arguments
    error_info,   \* what the message of the exception the last verb raised lists
    \* ---- UiReconciler.reconcile_ui applied to drawn inputs (SpecReconcile)
    r_old,        \* old_state
    r_new,        \* new_state
    r_out,        \* reconcile_ui(old_state, new_state)
    r_out2,       \* reconcile_ui(r_out, new_state)
    r_pc,
    \* ---- the component search applied to drawn inputs (SpecFind)
    f_in,         \* the arguments of the call
    f_out,        \* its outcome
    f_pc,
    \* ---- one _SaveRequestBuilder, from save_builder() to build() (SpecBuild)
    b_component,  \* _SaveRequestBuilder._component
    b_uuid,       \* _SaveRequestBuilder._uuid
    b_context,    \* _SaveRequestBuilder._context
    b_value,      \* _SaveRequestBuilder._value
    b_identifier, \* _SaveRequestBuilder._identifier
    b_calls,      \* the setters called on the builder so far
    b_out,        \* what build() returned or raised
    b_pc,
    \* ---- one GridInteractor operation on a drawn grid (SpecGrid)
    g_in,         \* the grid component and the operation's arguments
    g_out,        \* the save value returned, or the error raised
    g_pc,
    \* ---- the users of one AppianTaskSet parent starting (SpecAuth)
    a_credentials, \* parent.credentials
    a_auth,        \* parent.auth
    a_config,      \* parent.credentials as configured
    a_given,       \* what _determine_auth returned to each start, in order
    \* ---- the DataTypeCache of one _Interactor (SpecCache)
    c_cache,       \* DataTypeCache._cached_datatype
    c_prev,        \* _cached_datatype before the last cache() call
    c_resp,        \* the response the last cache() call was given
    c_err,         \* the exception the last cache() call raised, "" if none
    \* ---- paging one grid back and forth (SpecPaging)
    p_grid,        \* the grid component, its value the last save value emitted
    p_init,        \* the grid component the paging started from
    p_ops,         \* the paging operations applied so far, in order
    \* ---- one call of _Interactor.login against a server (SpecLogin)
    l_stack,       \* the login() calls in progress, the innermost last
    l_authed,      \* whether the server holds the session as authenticated
    l_multipart,   \* "__appianMultipartCsrfToken" in client.cookies
    l_server,      \* how the server answers
    l_posts,       \* Login.SubmitAuth POSTs sent so far
    l_result,      \* how the outermost login() ended, "" while it runs
    \* ---- GridInteractor.find_grid_by_index on a drawn form (SpecFindGrid)
    fg_in,         \* the form and the index asked for
    fg_out,        \* the grid returned, or the error raised
    fg_pc

formVars ==
    <<state, context, uuid, form_url, pc, sent, resp, outcome, nverbs, verb_start, call,
      error_info>>
recVars == <<r_old, r_new, r_out, r_out2, r_pc>>
findVars == <<f_in, f_out, f_pc>>
buildVars == <<b_component, b_uuid, b_context, b_value, b_identifier, b_calls, b_out, b_pc>>
gridVars == <<g_in, g_out, g_pc>>
authVars == <<a_credentials, a_auth, a_config, a_given>>
cacheVars == <<c_cache, c_prev, c_resp, c_err>>
pagingVars == <<p_grid, p_init, p_ops>>
loginVars == <<l_stack, l_authed, l_multipart, l_server, l_posts, l_result>>
findGridVars == <<fg_in, fg_out, fg_pc>>
moreVars == <<authVars, cacheVars, pagingVars, loginVars, findGridVars>>
vars == <<formVars, recVars, findVars, buildVars, gridVars, moreVars>>

(***************************************************************************)
(* JSON values                                                             *)
(***************************************************************************)
None == [t |-> "none", s |-> "", kids |-> <<>>]
Leaf(x) == [t |-> "leaf", s |-> x, kids |-> <<>>]
Pair(k, v) == [key |-> k, val |-> v]
Dict(pairs) == [t |-> "dict", s |-> "", kids |-> pairs]
List(elems) == [t |-> "list", s |-> "", kids |-> [i \in 1..Len(elems) |-> Pair("", elems[i])]]

IsDict(n) == n.t = "dict"
IsList(n) == n.t = "list"

\* Python truthiness: None, "", {} and [] are falsy
Truthy(n) ==
    CASE n.t = "none" -> FALSE
      [] n.t = "leaf" -> n.s # ""
      [] OTHER -> n.kids # <<>>

\* `k in d`
HasKey(d, k) == IsDict(d) /\ \E i \in 1..Len(d.kids) : d.kids[i].key = k

\* d.get(k): the value, or None
Get(d, k) ==
    IF HasKey(d, k)
    THEN d.kids[CHOOSE i \in 1..Len(d.kids) : d.kids[i].key = k].val
    ELSE None

Keys(d) == {d.kids[i].key : i \in 1..Len(d.kids)}

\* d[k] = v: an existing key keeps its position, a new key is appended
SetKey(d, k, v) ==
    IF HasKey(d, k)
    THEN [d EXCEPT !.kids = [i \in 1..Len(d.kids) |->
                                IF d.kids[i].key = k THEN Pair(k, v) ELSE d.kids[i]]]
    ELSE [d EXCEPT !.kids = Append(d.kids, Pair(k, v))]

RECURSIVE UpdateFrom(_, _, _)
UpdateFrom(d, pairs, i) ==
    IF i > Len(pairs) THEN d
    ELSE UpdateFrom(SetKey(d, pairs[i].key, pairs[i].val), pairs, i + 1)

\* a deep merge: nested lists are concatenated instead of replaced
RECURSIVE UpdateDeepFrom(_, _, _)
UpdateDeepFrom(d, pairs, i) ==
    IF i > Len(pairs) THEN d
    ELSE LET k == pairs[i].key
             v == pairs[i].val
             o == Get(d, k)
             nv == IF IsList(o) /\ IsList(v)
                   THEN [v EXCEPT !.kids = o.kids \o v.kids]
                   ELSE v
         IN UpdateDeepFrom(SetKey(d, k, nv), pairs, i + 1)

dict_update_deep(d, e) == UpdateDeepFrom(d, e.kids, 1)

\* dict.update(e): every entry of e is assigned into d, in e's order
dict_update(d, e) == UpdateFrom(d, e.kids, 1)

\* every node of a tree, the tree itself included
RECURSIVE NodesOf(_)
NodesOf(n) == {n} \cup UNION {NodesOf(n.kids[i].val) : i \in 1..Len(n.kids)}

\* positions in a tree: the sequence of child indices leading to a node
RECURSIVE PathsOf(_)
PathsOf(n) ==
    {<<>>} \cup UNION {{<<i>> \o q : q \in PathsOf(n.kids[i].val)} : i \in 1..Len(n.kids)}

RECURSIVE HasPath(_, _)
HasPath(n, p) ==
    p = <<>> \/ (Head(p) <= Len(n.kids) /\ HasPath(n.kids[Head(p)].val, Tail(p)))

RECURSIVE At(_, _)
At(n, p) == IF p = <<>> THEN n ELSE At(n.kids[Head(p)].val, Tail(p))

IsPrefix(p, q) == Len(p) <= Len(q) /\ SubSeq(q, 1, Len(p)) = p

(***************************************************************************)
(* UiReconciler                                                            *)
(***************************************************************************)
COMPONENT_DELTA_TYPE == "UiComponentsDelta"
MODIFIED_COMPONENTS_KEY == "modifiedComponents"
CID_KEY == "_cId"

\* the "update case" test of reconcile_ui
is_delta(new_state) ==
    /\ HasKey(new_state, "ui")
    /\ Get(Get(new_state, "ui"), "#t") = Leaf(COMPONENT_DELTA_TYPE)
    /\ HasKey(Get(new_state, "ui"), MODIFIED_COMPONENTS_KEY)

\* {comp[CID_KEY]: comp for comp in component_list if CID_KEY in comp}:
\* a later entry of the list overrides an earlier one with the same _cId
cid_to_component(component_list) ==
    LET comps == component_list.kids
        with == {i \in 1..Len(comps) : HasKey(comps[i].val, CID_KEY)}
        cids == {Get(comps[i].val, CID_KEY) : i \in with}
        last(c) == CHOOSE i \in with :
                      /\ Get(comps[i].val, CID_KEY) = c
                      /\ \A j \in with : Get(comps[j].val, CID_KEY) = c => j <= i
    IN [c \in cids |-> comps[last(c)].val]

\* _traverse_and_update_state, as the value the in-place walk leaves behind
RECURSIVE traverse_and_update_state(_, _)
traverse_and_update_state(st, lookup) ==
    IF IsDict(st) /\ Truthy(Get(st, CID_KEY)) /\ Get(st, CID_KEY) \in DOMAIN lookup
    THEN dict_update(st, lookup[Get(st, CID_KEY)])
    ELSE IF IsDict(st) \/ IsList(st)
    THEN [st EXCEPT !.kids = [i \in 1..Len(st.kids) |->
             Pair(st.kids[i].key, traverse_and_update_state(st.kids[i].val, lookup))]]
    ELSE st

\* the merge copies every top-level key of the response into the snapshot
reconcile_ui_root_merge(old_state, new_state) ==
    IF is_delta(new_state)
    THEN IF HasKey(new_state, "context")
         THEN [raised |-> FALSE,
               val |-> dict_update(
                   traverse_and_update_state(old_state,
                       cid_to_component(Get(Get(new_state, "ui"), MODIFIED_COMPONENTS_KEY))),
                   new_state)]
         ELSE [raised |-> TRUE, val |-> None]
    ELSE [raised |-> FALSE, val |-> new_state]

\* the context of the response is not passed forward
reconcile_ui_no_context(old_state, new_state) ==
    IF is_delta(new_state)
    THEN IF HasKey(new_state, "context")
         THEN [raised |-> FALSE,
               val |-> traverse_and_update_state(old_state,
                       cid_to_component(Get(Get(new_state, "ui"), MODIFIED_COMPONENTS_KEY)))]
         ELSE [raised |-> TRUE, val |-> None]
    ELSE [raised |-> FALSE, val |-> new_state]

\* a response that is no delta is ignored
reconcile_ui_keep_old(old_state, new_state) ==
    IF is_delta(new_state)
    THEN IF HasKey(new_state, "context")
         THEN [raised |-> FALSE,
               val |-> SetKey(
                   traverse_and_update_state(old_state,
                       cid_to_component(Get(Get(new_state, "ui"), MODIFIED_COMPONENTS_KEY))),
                   "context", Get(new_state, "context"))]
         ELSE [raised |-> TRUE, val |-> None]
    ELSE [raised |-> FALSE, val |-> old_state]

\* reconcile_ui: raised is TRUE when new_state['context'] raises KeyError
reconcile_ui(old_state, new_state) ==
    IF is_delta(new_state)
    THEN IF HasKey(new_state, "context")
         THEN [raised |-> FALSE,
               val |-> SetKey(
                   traverse_and_update_state(old_state,
                       cid_to_component(Get(Get(new_state, "ui"), MODIFIED_COMPONENTS_KEY))),
                   "context", Get(new_state, "context"))]
         ELSE [raised |-> TRUE, val |-> None]
    ELSE [raised |-> FALSE, val |-> new_state]

(***************************************************************************)
(* Bounded inputs                                                          *)
(***************************************************************************)
NumCids == 2     \* distinct component ids c1..cN
MaxComps == 2    \* longest modifiedComponents list

CIds == {"c" \o ToString(i) : i \in 1..NumCids}
NextCid(c) == CHOOSE k \in CIds :
                 \E i \in 1..NumCids : c = "c" \o ToString(i)
                                       /\ k = "c" \o ToString((i % NumCids) + 1)

Plain(c) == Dict(<<Pair(CID_KEY, Leaf(c)), Pair("v", Leaf("a"))>>)
NoId == Dict(<<Pair("v", Leaf("a"))>>)
Extra(c) == Dict(<<Pair(CID_KEY, Leaf(c)), Pair("v", Leaf("a")), Pair("w", Leaf("b"))>>)
Nested(c, k) == Dict(<<Pair(CID_KEY, Leaf(c)), Pair("v", Leaf("a")),
                       Pair("kids", List(<<Plain(k)>>))>>)
Wrapper(k) == Dict(<<Pair("kids", List(<<Plain(k)>>))>>)

OldNodes == {Plain(c) : c \in CIds} \cup {NoId} \cup {Extra(c) : c \in CIds}
            \cup {Nested(c, k) : c \in CIds, k \in CIds} \cup {Wrapper(k) : k \in CIds}
OldSiblings == {Plain(c) : c \in CIds} \cup {NoId}

Ctx(x) == Dict(<<Pair("k", Leaf(x))>>)
Form(u, x, contents) ==
    Dict(<<Pair("uuid", Leaf(u)), Pair("context", Ctx(x)),
           Pair("ui", Dict(<<Pair("#t", Leaf("FormLayout")),
                             Pair("contents", List(contents))>>))>>)

OldSnapshots == {Form("u1", "x1", <<n1, n2>>) : n1 \in OldNodes, n2 \in OldSiblings}

Rep(c) == Dict(<<Pair(CID_KEY, Leaf(c)), Pair("v", Leaf("b"))>>)
RepKids(c) == Dict(<<Pair(CID_KEY, Leaf(c)), Pair("v", Leaf("b")),
                     Pair("kids", List(<<Dict(<<Pair(CID_KEY, Leaf(NextCid(c))),
                                                Pair("v", Leaf("z"))>>)>>))>>)
RepU == Dict(<<Pair(CID_KEY, Leaf("c1")), Pair("u", Leaf("b"))>>)
NoIdComp == Dict(<<Pair("v", Leaf("b"))>>)

NewComps == {Rep(c) : c \in CIds} \cup {RepKids(c) : c \in CIds} \cup {RepU, NoIdComp}

CompLists == UNION {[1..n -> NewComps] : n \in 0..MaxComps}

Delta(comps) ==
    Dict(<<Pair("uuid", Leaf("u2")), Pair("context", Ctx("x2")),
           Pair("ui", Dict(<<Pair("#t", Leaf(COMPONENT_DELTA_TYPE)),
                             Pair(MODIFIED_COMPONENTS_KEY, List(comps))>>))>>)
\* a delta that carries no context
DeltaNoContext ==
    Dict(<<Pair("uuid", Leaf("u2")),
           Pair("ui", Dict(<<Pair("#t", Leaf(COMPONENT_DELTA_TYPE)),
                             Pair(MODIFIED_COMPONENTS_KEY, List(<<Rep("c1")>>))>>))>>)
\* responses that are no delta
NoUi == Dict(<<Pair("uuid", Leaf("u2")), Pair("context", Ctx("x2"))>>)
DeltaNoList ==
    Dict(<<Pair("uuid", Leaf("u2")), Pair("context", Ctx("x2")),
           Pair("ui", Dict(<<Pair("#t", Leaf(COMPONENT_DELTA_TYPE))>>))>>)
ListNoDelta ==
    Dict(<<Pair("uuid", Leaf("u2")), Pair("context", Ctx("x2")),
           Pair("ui", Dict(<<Pair("#t", Leaf("FormLayout")),
                             Pair(MODIFIED_COMPONENTS_KEY, List(<<Rep("c1")>>))>>))>>)
NonDeltas == {NoUi, DeltaNoList, ListNoDelta, Form("u2", "x2", <<Plain("c1")>>)}

Responses == {Delta(comps) : comps \in CompLists} \cup {DeltaNoContext} \cup NonDeltas

(***************************************************************************)
(* SpecReconcile: reconcile_ui on every drawn (old_state, new_state)       *)
(***************************************************************************)
NoResult == [raised |-> FALSE, val |-> None]

\* a verb and its arguments; "" for an argument the verb does not have
Call(verb, label, index, choice) ==
    [verb |-> verb, label |-> label, index |-> index, choice |-> choice]
NoCall == Call("", "", 0, "")
\* the fields of a SailUiForm that a verb may change
FormFields == [state |-> state, context |-> context, uuid |-> uuid, form_url |-> form_url]
FormIdle ==
    /\ state = None /\ context = None /\ uuid = None /\ form_url = ""
    /\ pc = "off" /\ sent = <<>> /\ resp = None /\ outcome = "" /\ nverbs = 0
    /\ verb_start = FormFields
    /\ call = NoCall /\ error_info = None
RecIdle ==
    /\ r_old = None /\ r_new = None /\ r_out = NoResult /\ r_out2 = NoResult
    /\ r_pc = "off"
FindIdle == f_in = <<>> /\ f_out = <<>> /\ f_pc = "off"
BuildIdle ==
    /\ b_component = None /\ b_uuid = None /\ b_context = None /\ b_value = None
    /\ b_identifier = None /\ b_calls = {} /\ b_out = <<>> /\ b_pc = "off"
GridIdle == g_in = <<>> /\ g_out = <<>> /\ g_pc = "off"
AuthIdle ==
    /\ a_credentials = [list |-> FALSE, v |-> <<>>] /\ a_auth = [user |-> ""]
    /\ a_config = <<>> /\ a_given = <<>>
CacheIdle == c_cache = {} /\ c_prev = {} /\ c_resp = None /\ c_err = "off"
PagingIdle == p_grid = <<>> /\ p_init = <<>> /\ p_ops = <<>>
LoginIdle ==
    /\ l_stack = <<>> /\ l_authed = FALSE /\ l_multipart = FALSE /\ l_server = <<>>
    /\ l_posts = 0 /\ l_result = "off"
FindGridIdle == fg_in = <<>> /\ fg_out = <<>> /\ fg_pc = "off"
MoreIdle == AuthIdle /\ CacheIdle /\ PagingIdle /\ LoginIdle /\ FindGridIdle

InitReconcile ==
    /\ r_old \in OldSnapshots
    /\ r_new \in Responses
    /\ r_out = NoResult /\ r_out2 = NoResult
    /\ r_pc = "init"
    /\ FormIdle /\ FindIdle /\ BuildIdle /\ GridIdle /\ MoreIdle

Reconcile ==
    /\ r_pc = "init"
    /\ r_out' = reconcile_ui(r_old, r_new)
    /\ r_pc' = "once"
    /\ UNCHANGED <<r_old, r_new, r_out2, formVars, findVars, buildVars, gridVars, moreVars>>

\* the same response is reconciled into the snapshot the first call returned
ReconcileAgain ==
    /\ r_pc = "once"
    /\ ~r_out.raised
    /\ r_out2' = reconcile_ui(r_out.val, r_new)
    /\ r_pc' = "twice"
    /\ UNCHANGED <<r_old, r_new, r_out, formVars, findVars, buildVars, gridVars, moreVars>>

NextReconcile == Reconcile \/ ReconcileAgain
SpecReconcile == InitReconcile /\ [][NextReconcile]_vars

(***************************************************************************)
(* Properties of reconcile_ui (SpecReconcile)                              *)
(***************************************************************************)
\* the replacement nodes of the drawn response, by _cId, and the set D of their ids
RLookup == cid_to_component(Get(Get(r_new, "ui"), MODIFIED_COMPONENTS_KEY))
RD == DOMAIN RLookup
DeltaMerged == r_pc # "init" /\ r_pc # "off" /\ is_delta(r_new) /\ ~r_out.raised

SameFields(a, b) ==
    /\ IsDict(a) /\ IsDict(b)
    /\ Keys(a) = Keys(b)
    /\ \A k \in Keys(a) : Get(a, k) = Get(b, k)
\* b's fields all stand in a, with b's values
FieldsApplied(a, b) ==
    /\ IsDict(a) /\ IsDict(b)
    /\ \A k \in Keys(b) : HasKey(a, k) /\ Get(a, k) = Get(b, k)

\* the paths of the old snapshot at which a dict with _cId c stands
Occurrences(c) == {p \in PathsOf(r_old) : IsDict(At(r_old, p)) /\ Get(At(r_old, p), CID_KEY) = c}

\* C1: after a delta is merged, every node of the merged snapshot whose _cId
\* is in D equals the replacement node of that _cId: same keys, same values
C1_ReplacedNodesEqualReplacement ==
    DeltaMerged =>
        \A n \in NodesOf(r_out.val) :
            (IsDict(n) /\ Get(n, CID_KEY) \in RD) => SameFields(n, RLookup[Get(n, CID_KEY)])

\* C2 as stated: every dict node of the old snapshot whose _cId is not in D,
\* or that has no _cId, stands unchanged at its place in the merged snapshot
C2_UntouchedNodesUnchanged ==
    DeltaMerged =>
        \A p \in PathsOf(r_old) :
            (IsDict(At(r_old, p)) /\ Get(At(r_old, p), CID_KEY) \notin RD)
                => (HasPath(r_out.val, p) /\ At(r_out.val, p) = At(r_old, p))

\* a snapshot with every node whose _cId is in D, and the top-level context,
\* blanked out
RECURSIVE Mask(_, _)
Mask(n, d) ==
    IF IsDict(n) /\ Get(n, CID_KEY) \in d THEN Leaf("<replaced>")
    ELSE [n EXCEPT !.kids = [i \in 1..Len(n.kids) |->
                                Pair(n.kids[i].key, Mask(n.kids[i].val, d))]]
MaskRoot(n, d) == Mask(SetKey(n, "context", None), d)

\* C2 as amended: the merged snapshot differs from the old one only inside
\* the nodes whose _cId is in D and in the top-level context
C2_ChangesConfinedToD ==
    DeltaMerged => MaskRoot(r_out.val, RD) = MaskRoot(r_old, RD)

\* a node outside D kept its place and value next to a node that was replaced
C2_Witness ==
    /\ DeltaMerged
    /\ \E p \in PathsOf(r_old), q \in PathsOf(r_old) :
          /\ IsDict(At(r_old, p)) /\ Truthy(Get(At(r_old, p), CID_KEY))
          /\ Get(At(r_old, p), CID_KEY) \notin RD
          /\ At(r_out.val, p) = At(r_old, p)
          /\ IsDict(At(r_old, q)) /\ Get(At(r_old, q), CID_KEY) \in RD
          /\ At(r_out.val, q) # At(r_old, q)

\* C3: when a _cId of D occurs more than once in the old snapshot, every
\* occurrence that the merged snapshot still holds carries the replacement's
\* fields, and all of them are equal
C3_AllOccurrencesReplaced ==
    DeltaMerged =>
        \A cid \in RD :
            LET occ == {p \in Occurrences(cid) :
                           /\ HasPath(r_out.val, p)
                           /\ IsDict(At(r_out.val, p))
                           /\ Get(At(r_out.val, p), CID_KEY) = cid}
            IN Cardinality(Occurrences(cid)) > 1 =>
                  /\ \A p \in occ : FieldsApplied(At(r_out.val, p), RLookup[cid])
                  /\ \A p \in occ, q \in occ : At(r_out.val, p) = At(r_out.val, q)

\* C6: a response that is no delta is returned verbatim, whatever the old
\* snapshot, and reconciling it a second time gives the same snapshot
C6_NonDeltaVerbatim ==
    (r_pc \in {"once", "twice"} /\ ~is_delta(r_new)) =>
        /\ ~r_out.raised
        /\ r_out.val = r_new
        /\ (r_pc = "twice" => r_out2 = r_out)

C6_Witness ==
    /\ r_pc = "twice" /\ ~is_delta(r_new)
    /\ Get(Get(r_new, "ui"), "#t") = Leaf(COMPONENT_DELTA_TYPE)
    /\ r_out.val # r_old

\* C7: reconciling the same delta a second time changes nothing
C7_DeltaIdempotent ==
    (r_pc = "twice" /\ is_delta(r_new)) => (~r_out2.raised /\ r_out2.val = r_out.val)

\* a replaced node stood inside another replaced node
C7_Witness ==
    /\ r_pc = "twice" /\ is_delta(r_new)
    /\ \E p \in PathsOf(r_old), q \in PathsOf(r_old) :
          /\ p # q /\ IsPrefix(p, q)
          /\ IsDict(At(r_old, p)) /\ Get(At(r_old, p), CID_KEY) \in RD
          /\ IsDict(At(r_old, q)) /\ Get(At(r_old, q), CID_KEY) \in RD
          /\ Get(At(r_old, p), CID_KEY) # Get(At(r_old, q), CID_KEY)
    /\ r_out.val # SetKey(r_old, "context", Get(r_new, "context"))

\* C8: in delta mode the merged snapshot's top-level context is the context
\* of the response
C8_DeltaContextFromResponse ==
    /\ DeltaMerged => Get(r_out.val, "context") = Get(r_new, "context")
    /\ (r_pc = "twice" /\ is_delta(r_new)) =>
           Get(r_out2.val, "context") = Get(r_new, "context")

\* no component of the delta matched, and the context still changed
C8_Witness ==
    /\ DeltaMerged
    /\ \A n \in NodesOf(r_old) : IsDict(n) => Get(n, CID_KEY) \notin RD
    /\ Get(r_old, "context") # Get(r_new, "context")
    /\ Get(r_out.val, "context") = Get(r_new, "context")

(***************************************************************************)
(* utilities/helper.py: the component search                               *)
(***************************************************************************)
\* d.get(k, default)
GetD(d, k, default) == IF HasKey(d, k) THEN Get(d, k) ELSE default

\* type_check of one visited mapping
type_check(tree, type) == type = "" \/ GetD(tree, "#t", Leaf("")) = Leaf(type)
\* attribute_check of one visited mapping
attribute_check(tree, attribute, value) ==
    attribute = "" \/ GetD(tree, attribute, Leaf("")) = Leaf(value)

\* a queued tree: the value n and the place p it has in component_tree
Values(tree) == [i \in 1..Len(tree.n.kids) |-> [n |-> tree.n.kids[i].val, p |-> Append(tree.p, i)]]

\* the children of a visited mapping are queued behind the rest of the work
search_loop_append(trees_to_search, tree) == Tail(trees_to_search) \o Values(tree)

\* trees_to_search after a list or a mapping was popped: its elements or
\* values go to the front of the queue
search_loop_prepend(trees_to_search, tree) == Values(tree) \o Tail(trees_to_search)

\* the while loop of find_component_by_type_and_attribute_and_index_in_dict;
\* fl holds the three "passed once" flags
RECURSIVE search_loop(_, _, _, _, _, _)
search_loop(trees_to_search, type, attribute, value, index, fl) ==
    IF trees_to_search = <<>>
    THEN [found |-> FALSE, node |-> None, at |-> <<>>, fl |-> fl]
    ELSE LET tree == Head(trees_to_search) IN
         IF ~(IsDict(tree.n) \/ IsList(tree.n))
         THEN search_loop(Tail(trees_to_search), type, attribute, value, index, fl)
         ELSE IF IsList(tree.n)
         THEN search_loop(search_loop_prepend(trees_to_search, tree),
                          type, attribute, value, index, fl)
         ELSE LET tc == type_check(tree.n, type)
                  ac == attribute_check(tree.n, attribute, value)
                  nfl == [type_once |-> fl.type_once \/ tc,
                          attr_once |-> fl.attr_once \/ ac,
                          both |-> fl.both \/ (tc /\ ac)]
              IN IF tc /\ ac /\ index = 1
                 THEN [found |-> TRUE, node |-> tree.n, at |-> tree.p, fl |-> nfl]
                 ELSE search_loop(search_loop_prepend(trees_to_search, tree),
                                  type, attribute, value,
                                  IF tc /\ ac THEN index - 1 ELSE index, nfl)

NoFlags == [type_once |-> FALSE, attr_once |-> FALSE, both |-> FALSE]

\* the attribute test comes first
not_found_error_attribute_first(type, attribute, fl) ==
    IF attribute # "" /\ ~fl.attr_once THEN "no_components_with_attribute"
    ELSE IF type # "" /\ ~fl.type_once THEN "no_components_with_type"
    ELSE IF fl.both THEN "index_out_of_range"
    ELSE "found_on_different_components"

\* the error raised after an exhausted search, in the order the code tests
not_found_error(type, attribute, fl) ==
    IF type # "" /\ ~fl.type_once THEN "no_components_with_type"
    ELSE IF attribute # "" /\ ~fl.attr_once THEN "no_components_with_attribute"
    ELSE IF fl.both THEN "index_out_of_range"
    ELSE "found_on_different_components"

\* only index 0 is refused
invalid_index_zero_only(index) == index = 0

\* the two tests that open the search: index 0, then a negative index
invalid_index(index) == index = 0 \/ index < 0

\* find_component_by_type_and_attribute_and_index_in_dict: kind is "node",
\* "none" (None returned) or the error raised
find_component_by_type_and_attribute_and_index_in_dict(component_tree, type, attribute, value, index, raise_error) ==
    IF invalid_index(index) THEN [kind |-> "invalid_index", node |-> None, at |-> <<>>]
    ELSE LET r == search_loop(<<[n |-> component_tree, p |-> <<>>]>>,
                              type, attribute, value, index, NoFlags)
         IN IF r.found THEN [kind |-> "node", node |-> r.node, at |-> r.at]
            ELSE IF ~raise_error THEN [kind |-> "none", node |-> None, at |-> <<>>]
            ELSE [kind |-> not_found_error(type, attribute, r.fl), node |-> None, at |-> <<>>]

(***************************************************************************)
(* SpecFind: the search on every drawn tree and argument list              *)
(***************************************************************************)
MaxIndex == 3    \* largest occurrence index asked for

Comp(t, l, c) == Dict(<<Pair("#t", Leaf(t)), Pair("label", Leaf(l)), Pair(CID_KEY, Leaf(c))>>)
Section(l, c, kid) ==
    Dict(<<Pair("#t", Leaf("SectionLayout")), Pair("label", Leaf(l)), Pair(CID_KEY, Leaf(c)),
           Pair("contents", List(<<kid>>))>>)
NoType(l, c) == Dict(<<Pair("label", Leaf(l)), Pair(CID_KEY, Leaf(c))>>)
NoLabel(c) == Dict(<<Pair("#t", Leaf("TextField")), Pair(CID_KEY, Leaf(c))>>)

FindTypes == {"TextField", "ButtonWidget"}
FindLabels == {"Name", "Other"}
\* the components that may stand at one place; c tells the places apart
Shapes(c) ==
    {Comp(t, l, c) : t \in FindTypes, l \in FindLabels}
    \cup {Section(l, c, Comp(t, k, c \o "k")) : l \in FindLabels, t \in FindTypes, k \in FindLabels}
    \cup {NoType(l, c) : l \in FindLabels}
    \cup {NoLabel(c)}
FindTrees == {Form("u1", "x1", <<a, b>>) : a \in Shapes("c1"), b \in Shapes("c2")}

InitFind ==
    /\ f_in \in [component_tree : FindTrees,
                 type : FindTypes \cup {""},
                 attribute : {"", "label"},
                 value : FindLabels \cup {""},
                 index : (-1)..MaxIndex,
                 raise_error : BOOLEAN]
    /\ f_in.attribute = "" => f_in.value = ""
    /\ f_out = <<>>
    /\ f_pc = "init"
    /\ FormIdle /\ RecIdle /\ BuildIdle /\ GridIdle /\ MoreIdle

Find ==
    /\ f_pc = "init"
    /\ f_out' = find_component_by_type_and_attribute_and_index_in_dict(
                    f_in.component_tree, f_in.type, f_in.attribute, f_in.value,
                    f_in.index, f_in.raise_error)
    /\ f_pc' = "done"
    /\ UNCHANGED <<f_in, formVars, recVars, buildVars, gridVars, moreVars>>

NextFind == Find
SpecFind == InitFind /\ [][NextFind]_vars

\* the mappings of a tree in the order "a node before its children, a
\* mapping's values in insertion order, a sequence's elements in order"
RECURSIVE Flatten(_)
Flatten(ss) == IF ss = <<>> THEN <<>> ELSE Head(ss) \o Flatten(Tail(ss))
\* (as places: the sequence of child indices from the root)
RECURSIVE Preorder(_, _)
Preorder(n, p) ==
    LET below == Flatten([i \in 1..Len(n.kids) |-> Preorder(n.kids[i].val, Append(p, i))])
    IN IF IsDict(n) THEN <<p>> \o below ELSE below

HasType(p) == type_check(At(f_in.component_tree, p), f_in.type)
HasAttr(p) == attribute_check(At(f_in.component_tree, p), f_in.attribute, f_in.value)
Satisfies(p) == HasType(p) /\ HasAttr(p)
AllMappings == Preorder(f_in.component_tree, <<>>)
Matching == SelectSeq(AllMappings, Satisfies)

\* C9: the search returns the index-th (from 1) of the mappings that satisfy
\* every given filter, in node-before-children order
C9_IndexthInPreorder ==
    (f_pc = "done" /\ f_in.index >= 1 /\ Len(Matching) >= f_in.index) =>
        /\ f_out.kind = "node"
        /\ f_out.at = Matching[f_in.index]
        /\ f_out.node = At(f_in.component_tree, Matching[f_in.index])

\* two components carry the same label and the second one is returned
C9_Witness ==
    /\ f_pc = "done" /\ f_in.index = 2 /\ f_in.attribute = "label" /\ f_in.value = "Name"
    /\ f_in.type = ""
    /\ Len(Matching) = 2
    /\ f_out.kind = "node" /\ f_out.at = Matching[2]

\* C10: with fewer than index matches the outcome is None in the non-raising
\* mode and, in the raising mode, the first that applies of: no component of
\* the type, no component with the attribute value, both found but on
\* different components, index out of range
C10_NotFoundOutcome ==
    (f_pc = "done" /\ f_in.index >= 1 /\ Len(Matching) < f_in.index) =>
        IF ~f_in.raise_error THEN f_out.kind = "none"
        ELSE IF f_in.type # "" /\ SelectSeq(AllMappings, HasType) = <<>>
        THEN f_out.kind = "no_components_with_type"
        ELSE IF f_in.attribute # "" /\ SelectSeq(AllMappings, HasAttr) = <<>>
        THEN f_out.kind = "no_components_with_attribute"
        ELSE IF Matching = <<>>
        THEN f_out.kind = "found_on_different_components"
        ELSE f_out.kind = "index_out_of_range"

\* the index is one greater than the number of matches
C10_Witness ==
    /\ f_pc = "done" /\ f_in.raise_error
    /\ f_in.type # "" /\ f_in.attribute # ""
    /\ Len(Matching) >= 1 /\ f_in.index = Len(Matching) + 1
    /\ f_out.kind = "index_out_of_range"

\* C11: with index 0 or a negative index the search raises the usage error,
\* whatever the tree, the filters and the mode; it returns no node and no None
C11_NonPositiveIndexIsUsageError ==
    (f_pc = "done" /\ f_in.index <= 0) => f_out.kind = "invalid_index"

\* a negative index in the non-raising mode on a tree that holds a match
C11_Witness ==
    /\ f_pc = "done" /\ f_in.index = -1 /\ ~f_in.raise_error
    /\ Len(Matching) >= 1
    /\ f_out.kind = "invalid_index"

(***************************************************************************)
(* _SaveRequestBuilder                                                     *)
(***************************************************************************)
NoPayload == [context |-> None, uuid |-> None, cId |-> None, model |-> None,
              value |-> None, saveInto |-> None, identifier |-> None]

\* the payload carries the uuid as its context and the context as its uuid
build_swapped(component, uuid_, context_, value, identifier) ==
    IF component = None THEN [err |-> "Component not set", payload |-> NoPayload]
    ELSE IF uuid_ = None THEN [err |-> "uuid not set", payload |-> NoPayload]
    ELSE IF context_ = None THEN [err |-> "context not set", payload |-> NoPayload]
    ELSE IF value = None /\ ~HasKey(component, "value")
    THEN [err |-> "KeyError", payload |-> NoPayload]
    ELSE IF ~HasKey(component, "saveInto") /\ ~HasKey(component, "onSubmitSaveInto")
            /\ ~HasKey(Get(component, "contents"), "saveInto")
    THEN [err |-> "saveInto not set", payload |-> NoPayload]
    ELSE IF ~HasKey(component, CID_KEY) THEN [err |-> "KeyError", payload |-> NoPayload]
    ELSE [err |-> "",
          payload |-> [context |-> uuid_,
                       uuid |-> context_,
                       cId |-> Get(component, CID_KEY),
                       model |-> component,
                       value |-> IF value = None THEN Get(component, "value") ELSE value,
                       saveInto |-> IF HasKey(component, "saveInto")
                                    THEN Get(component, "saveInto")
                                    ELSE IF HasKey(component, "onSubmitSaveInto")
                                    THEN Get(component, "onSubmitSaveInto")
                                    ELSE Get(Get(component, "contents"), "saveInto"),
                       identifier |-> IF Truthy(identifier) THEN identifier ELSE None]]

\* the context is never tested
missing_error_no_context(component, uuid_, context_) ==
    IF component = None THEN "Component not set"
    ELSE IF uuid_ = None THEN "uuid not set"
    ELSE ""

\* the three tests that open build(): "" when all three were set
missing_error(component, uuid_, context_) ==
    IF component = None THEN "Component not set"
    ELSE IF uuid_ = None THEN "uuid not set"
    ELSE IF context_ = None THEN "context not set"
    ELSE ""

\* onSubmitSaveInto is looked at first
save_into_on_submit_first(component) ==
    IF HasKey(component, "onSubmitSaveInto")
    THEN [found |-> TRUE, val |-> Get(component, "onSubmitSaveInto")]
    ELSE IF HasKey(component, "saveInto")
    THEN [found |-> TRUE, val |-> Get(component, "saveInto")]
    ELSE IF HasKey(Get(component, "contents"), "saveInto")
    THEN [found |-> TRUE, val |-> Get(Get(component, "contents"), "saveInto")]
    ELSE [found |-> FALSE, val |-> None]

\* where build() reads save_into from; found is FALSE when it raises
\* "saveInto not set"
save_into(component) ==
    IF HasKey(component, "saveInto")
    THEN [found |-> TRUE, val |-> Get(component, "saveInto")]
    ELSE IF HasKey(component, "onSubmitSaveInto")
    THEN [found |-> TRUE, val |-> Get(component, "onSubmitSaveInto")]
    ELSE IF HasKey(Get(component, "contents"), "saveInto")
    THEN [found |-> TRUE, val |-> Get(Get(component, "contents"), "saveInto")]
    ELSE [found |-> FALSE, val |-> None]

\* the component's value wins whenever the component has one
request_value_component_first(component, value) ==
    IF HasKey(component, "value") THEN Get(component, "value") ELSE value

\* self._value as build() leaves it: the component's value when none was set
request_value(component, value) ==
    IF value = None THEN Get(component, "value") ELSE value

\* save_builder().component(..).context(..).uuid(..).value(..).build(); an
\* argument that was never set is None. err is "" when a payload is built.
build(component, uuid_, context_, value, identifier) ==
    IF missing_error(component, uuid_, context_) # ""
    THEN [err |-> missing_error(component, uuid_, context_), payload |-> NoPayload]
    ELSE IF value = None /\ ~HasKey(component, "value")
    THEN [err |-> "KeyError", payload |-> NoPayload]
    ELSE IF ~save_into(component).found
    THEN [err |-> "saveInto not set", payload |-> NoPayload]
    ELSE IF ~HasKey(component, CID_KEY) THEN [err |-> "KeyError", payload |-> NoPayload]
    ELSE [err |-> "",
          payload |-> [context |-> context_,
                       uuid |-> uuid_,
                       cId |-> Get(component, CID_KEY),
                       model |-> component,
                       value |-> request_value(component, value),
                       saveInto |-> save_into(component).val,
                       identifier |-> IF Truthy(identifier) THEN identifier ELSE None]]

(***************************************************************************)
(* helpers of the verbs                                                    *)
(***************************************************************************)
\* _extract_item_by_label / extract_all_by_label: every value found under
\* the key label, at any depth, a value before what lies inside it
RECURSIVE extract_all_by_label(_, _)
extract_all_by_label(obj, label) ==
    IF IsDict(obj)
    THEN Flatten([i \in 1..Len(obj.kids) |->
            (IF obj.kids[i].key = label THEN <<obj.kids[i].val>> ELSE <<>>)
            \o extract_all_by_label(obj.kids[i].val, label)])
    ELSE IF IsList(obj)
    THEN Flatten([i \in 1..Len(obj.kids) |-> extract_all_by_label(obj.kids[i].val, label)])
    ELSE <<>>

\* urlparse(href).path on the hrefs the modelled server issues
UrlPath(href) ==
    CASE href = "https://host/suite/r/f1?x=1" -> "/suite/r/f1"
      [] href = "/suite/r/f2" -> "/suite/r/f2"
      [] OTHER -> ""

\* without an update link the url is forgotten
get_update_url_for_reeval_reset(st, current_url) ==
    IF ~Truthy(st) THEN ""
    ELSE IF ~HasKey(st, "links") THEN ""
    ELSE LET links == Get(st, "links").kids
             upd == {i \in 1..Len(links) : Get(links[i].val, "rel") = Leaf("update")}
         IN IF upd = {} THEN ""
            ELSE LET first == CHOOSE i \in upd : \A j \in upd : i <= j
                 IN UrlPath(GetD(links[first].val, "href", Leaf("")).s)

\* SailUiForm._get_update_url_for_reeval, given the current self.form_url
get_update_url_for_reeval(st, current_url) ==
    IF ~Truthy(st) THEN ""
    ELSE IF ~HasKey(st, "links") THEN current_url
    ELSE LET links == Get(st, "links").kids
             upd == {i \in 1..Len(links) : Get(links[i].val, "rel") = Leaf("update")}
         IN IF upd = {} THEN current_url
            ELSE LET first == CHOOSE i \in upd : \A j \in upd : i <= j
                 IN UrlPath(GetD(links[first].val, "href", Leaf("")).s)

\* find_component_by_attribute_and_index_in_dict: the search, then
\* _validate_component_found
find_component_by_attribute_and_index_in_dict(attribute, value, index, component_tree) ==
    LET r == find_component_by_type_and_attribute_and_index_in_dict(
                 component_tree, "", attribute, value, index, TRUE)
    IN IF r.kind = "node" /\ ~Truthy(r.node)
       THEN [kind |-> "could_not_find", node |-> None, at |-> <<>>]
       ELSE r

\* find_component_by_attribute_in_dict with raise_error = True: the first
\* match, then _validate_component_found
find_component_by_attribute_in_dict(attribute, value, component_tree) ==
    LET r == find_component_by_type_and_attribute_and_index_in_dict(
                 component_tree, "", attribute, value, 1, TRUE)
    IN IF r.kind = "node" /\ ~Truthy(r.node)
       THEN [kind |-> "could_not_find", node |-> None, at |-> <<>>]
       ELSE r

\* find_component_by_label_and_type_dict with raise_error = True
find_component_by_label_and_type_dict(attribute, value, type, component_tree) ==
    LET r == find_component_by_type_and_attribute_and_index_in_dict(
                 component_tree, type, attribute, value, 1, TRUE)
    IN IF r.kind = "node" /\ ~Truthy(r.node)
       THEN [kind |-> "could_not_find", node |-> None, at |-> <<>>]
       ELSE r

(***************************************************************************)
(* _Interactor: the requests of the verbs                                  *)
(***************************************************************************)
KeyIndex(d, k) == CHOOSE i \in 1..Len(d.kids) : d.kids[i].key = k

\* the tree with the node at place p replaced by v
RECURSIVE SetAt(_, _, _)
SetAt(n, p, v) ==
    IF p = <<>> THEN v
    ELSE [n EXCEPT !.kids[Head(p)].val = SetAt(n.kids[Head(p)].val, Tail(p), v)]

TextValue(text) == Dict(<<Pair("#t", Leaf("Text")), Pair("#v", Leaf(text))>>)
PickerText(text) == Dict(<<Pair("#t", Leaf("PickerData")), Pair("typedText", Leaf(text))>>)
PickerSelection(selection) ==
    Dict(<<Pair("#t", Leaf("PickerData")), Pair("identifiers", List(<<selection>>))>>)

\* _Interactor.fill_textfield, up to the POST
fill_textfield(text_field, text, context_, uuid_) ==
    build(text_field, uuid_, context_, TextValue(text), None)
\* _Interactor.fill_pickerfield_text, up to the POST
fill_pickerfield_text(picker_field, text, context_, uuid_) ==
    build(picker_field, uuid_, context_, PickerText(text), None)
\* _Interactor.select_pickerfield_suggestion, up to the POST
select_pickerfield_suggestion(picker_field, selection, context_, uuid_) ==
    build(picker_field, uuid_, context_, PickerSelection(selection), None)

\* a JSON integer, by its decimal digits
IntLeaf(k) ==
    [t |-> "int", s |-> <<"0", "1", "2", "3", "4", "5", "6", "7", "8", "9">>[k + 1],
     kids |-> <<>>]
IntegerValue(index) == Dict(<<Pair("#t", Leaf("Integer")), Pair("#v", IntLeaf(index))>>)

\* _Interactor.send_dropdown_update, up to the POST
send_dropdown_update(dropdown, context_, uuid_, index, identifier) ==
    build(dropdown, uuid_, context_, IntegerValue(index), identifier)

\* the position is counted from 0
choice_index_zero_based(choices, choice_label) ==
    (CHOOSE i \in 1..Len(choices.kids) :
        /\ choices.kids[i].val = Leaf(choice_label)
        /\ \A j \in 1..(i - 1) : choices.kids[j].val # Leaf(choice_label)) - 1

\* choices.index(choice_label) + 1
choice_index(choices, choice_label) ==
    CHOOSE i \in 1..Len(choices.kids) :
        /\ choices.kids[i].val = Leaf(choice_label)
        /\ \A j \in 1..(i - 1) : choices.kids[j].val # Leaf(choice_label)

\* _Interactor.construct_and_send_dropdown_update with a str choice_label, up
\* to the POST; info is the list of choices that ChoiceNotFoundException names
construct_and_send_dropdown_update(component, choice_label, context_, uuid_, identifier) ==
    LET choices == Get(component, "choices") IN
    IF ~Truthy(choices) THEN [err |-> "no_choices", info |-> None, payload |-> NoPayload]
    ELSE IF \A i \in 1..Len(choices.kids) : choices.kids[i].val # Leaf(choice_label)
    THEN [err |-> "choice_not_found", info |-> choices, payload |-> NoPayload]
    ELSE LET b == send_dropdown_update(component, context_, uuid_,
                                       choice_index(choices, choice_label), identifier)
         IN [err |-> b.err, info |-> None, payload |-> b.payload]

\* _Interactor.click_component, up to the POST. The component is the node at
\* place `at` of the snapshot st; a component that has a `link` is swapped for
\* that link, which is given the wrapper's label in place: st is the snapshot
\* as that assignment leaves it.
click_component(st, at, context_, uuid_) ==
    LET component == At(st, at) IN
    IF HasKey(component, "link")
    THEN IF ~HasKey(component, "label") THEN [err |-> "KeyError", payload |-> NoPayload, st |-> st]
         ELSE IF ~IsDict(Get(component, "link"))
         THEN [err |-> "TypeError", payload |-> NoPayload, st |-> st]
         ELSE LET link == SetKey(Get(component, "link"), "label", Get(component, "label"))
                  b == build(link, uuid_, context_, None, None)
              IN [err |-> b.err, payload |-> b.payload,
                  st |-> SetAt(st, Append(at, KeyIndex(component, "link")), link)]
    ELSE LET b == build(component, uuid_, context_, None, None)
         IN [err |-> b.err, payload |-> b.payload, st |-> st]

(***************************************************************************)
(* SailUiForm                                                              *)
(***************************************************************************)
KEY_UUID == "uuid"
KEY_CONTEXT == "context"

\* SailUiForm._reconcile_state on the fields of the form; raised when
\* reconcile_ui raises, which leaves every field as it was
reconcile_state(st, context_, uuid_, url, new_state) ==
    LET rec == reconcile_ui(st, new_state) IN
    IF rec.raised
    THEN [raised |-> TRUE, state |-> st, form_url |-> url, uuid |-> uuid_, context |-> context_]
    ELSE [raised |-> FALSE,
          state |-> rec.val,
          form_url |-> get_update_url_for_reeval(rec.val, url),
          uuid |-> IF Truthy(Get(rec.val, KEY_UUID)) THEN Get(rec.val, KEY_UUID) ELSE uuid_,
          context |-> IF Truthy(Get(rec.val, KEY_CONTEXT))
                      THEN Get(rec.val, KEY_CONTEXT) ELSE context_]

\* ---- the modelled server: forms and responses
TextFieldC(c) ==
    Dict(<<Pair("#t", Leaf("TextField")), Pair("label", Leaf("Name")), Pair(CID_KEY, Leaf(c)),
           Pair("value", Leaf("old")), Pair("saveInto", Leaf("save-" \o c))>>)
ButtonC(c) ==
    Dict(<<Pair("#t", Leaf("ButtonWidget")), Pair("label", Leaf("Submit")), Pair(CID_KEY, Leaf(c)),
           Pair("value", Leaf("pressed")), Pair("saveInto", Leaf("save-" \o c))>>)
Suggestion(i) == Dict(<<Pair("identifier", Dict(<<Pair("id", Leaf(i))>>))>>)
PickerC(c, suggestions) ==
    Dict(<<Pair("#t", Leaf("PickerWidget")), Pair("testLabel", Leaf("test-P")),
           Pair(CID_KEY, Leaf(c)), Pair("saveInto", Leaf("save-" \o c)),
           Pair("suggestions", List(suggestions))>>)
DropdownC(c, choices) ==
    Dict(<<Pair("#t", Leaf("DropdownField")), Pair("label", Leaf("Color")),
           Pair(CID_KEY, Leaf(c)), Pair("value", Leaf("")), Pair("saveInto", Leaf("save-" \o c)),
           Pair("choices", List(choices))>>)
ValidatedFieldC(c, validations) ==
    Dict(<<Pair("#t", Leaf("TextField")), Pair("label", Leaf("Name")), Pair(CID_KEY, Leaf(c)),
           Pair("value", Leaf("old")), Pair("saveInto", Leaf("save-" \o c)),
           Pair("validations", List(validations))>>)
ValidationMessage == Dict(<<Pair("message", Leaf("A value is required"))>>)
DynamicLink(c) ==
    Dict(<<Pair("#t", Leaf("DynamicLink")), Pair(CID_KEY, Leaf(c)),
           Pair("value", Leaf("go")), Pair("saveInto", Leaf("save-" \o c))>>)
LinkFieldC(link) ==
    Dict(<<Pair("#t", Leaf("LinkField")), Pair("label", Leaf("Go")), Pair("link", link)>>)

UpdateLink(href) == Dict(<<Pair("rel", Leaf("update")), Pair("href", Leaf(href))>>)
OtherLink == Dict(<<Pair("rel", Leaf("self")), Pair("href", Leaf("/suite/r/f2"))>>)
SForm(u, x, links, contents) ==
    Dict(<<Pair(KEY_UUID, Leaf(u)), Pair(KEY_CONTEXT, Ctx(x)), Pair("links", List(links)),
           Pair("ui", Dict(<<Pair("#t", Leaf("FormLayout")),
                             Pair("contents", List(contents))>>))>>)

InitialForms ==
    {SForm("u1", "x1", <<OtherLink, UpdateLink("https://host/suite/r/f1?x=1")>>,
           <<TextFieldC("c1"), TextFieldC("c2")>>),
     SForm("u1", "x1", <<UpdateLink("https://host/suite/r/f1?x=1")>>,
           <<PickerC("c1", <<>>), ButtonC("c2")>>),
     SForm("u1", "x1", <<UpdateLink("https://host/suite/r/f1?x=1")>>,
           <<LinkFieldC(DynamicLink("c1")), LinkFieldC(Dict(<<>>))>>),
     SForm("u1", "x1", <<UpdateLink("https://host/suite/r/f1?x=1")>>,
           <<DropdownC("c1", <<Leaf("Red"), Leaf("Green"), Leaf("Blue")>>), ButtonC("c2")>>),
     SForm("u1", "x1", <<UpdateLink("https://host/suite/r/f1?x=1")>>,
           <<ValidatedFieldC("c1", <<>>), ButtonC("c2")>>)}

SDelta(u, x, comps) ==
    Dict(<<Pair(KEY_UUID, Leaf(u)), Pair(KEY_CONTEXT, Ctx(x)),
           Pair("ui", Dict(<<Pair("#t", Leaf(COMPONENT_DELTA_TYPE)),
                             Pair(MODIFIED_COMPONENTS_KEY, List(comps))>>))>>)

FormResponses ==
    {SDelta("u1", "x2", <<Dict(<<Pair(CID_KEY, Leaf("c1")), Pair("value", Leaf("new"))>>)>>),
     SDelta("u2", "x3", <<PickerC("c1", <<Suggestion("i1"), Suggestion("i2")>>)>>),
     SDelta("u1", "x2", <<Dict(<<Pair(CID_KEY, Leaf("c2")),
                                 Pair("validations", List(<<ValidationMessage>>))>>)>>),
     DeltaNoContext,
     SForm("u2", "x2", <<UpdateLink("/suite/r/f2")>>, <<TextFieldC("c1"), ButtonC("c2")>>),
     SForm("u3", "x3", <<OtherLink>>, <<PickerC("c2", <<Suggestion("i1")>>)>>),
     SForm("u2", "x2", <<UpdateLink("/suite/r/f2")>>, <<PickerC("c1", <<Suggestion("i1")>>)>>),
     Dict(<<Pair(KEY_CONTEXT, Ctx("x4")),
            Pair("ui", Dict(<<Pair("#t", Leaf("FormLayout")),
                              Pair("contents", List(<<ButtonC("c1")>>))>>))>>),
     Dict(<<>>)}

\* what post_page may do: raise, or hand back a response
TransportFailure == Leaf("<transport failure>")
PostResults == FormResponses \cup {TransportFailure}

MaxVerbs == 2    \* verbs called on one form

\* ---- the verbs
\* the construction of a SailUiForm on an initial response
Init ==
    /\ state \in InitialForms
    /\ context = Get(state, KEY_CONTEXT)
    /\ uuid = Get(state, KEY_UUID)
    /\ form_url = get_update_url_for_reeval(state, "")
    /\ pc = "idle" /\ sent = <<>> /\ resp = None /\ outcome = "" /\ nverbs = 0
    /\ verb_start = FormFields
    /\ call = NoCall /\ error_info = None
    /\ RecIdle /\ FindIdle /\ BuildIdle /\ GridIdle /\ MoreIdle

\* the verb raises an exception whose message lists info: nothing is
\* reconciled
RaisesInfo(kind, info, st, reqs) ==
    /\ state' = st
    /\ UNCHANGED <<context, uuid, form_url, resp>>
    /\ outcome' = kind
    /\ error_info' = info
    /\ sent' = reqs
    /\ pc' = "idle"

\* the verb raises: nothing is reconciled
Raises(kind, st, reqs) == RaisesInfo(kind, None, st, reqs)

\* the POST of a built request and what the verb does with its result
PostAndReconcile(st, reqs, result, nextpc) ==
    IF result = TransportFailure THEN Raises("transport_failure", st, reqs)
    ELSE IF ~Truthy(result) THEN Raises("no_response", st, reqs)
    ELSE LET r == reconcile_state(st, context, uuid, form_url, result) IN
         /\ state' = r.state
         /\ context' = r.context
         /\ uuid' = r.uuid
         /\ form_url' = r.form_url
         /\ resp' = result
         /\ error_info' = None
         /\ sent' = reqs
         /\ outcome' = IF r.raised THEN "reconcile_error"
                       ELSE IF nextpc = "idle" THEN "ok" ELSE "pending"
         /\ pc' = IF r.raised THEN "idle" ELSE nextpc

\* a posted request: the url, the payload and the number of the verb posting it
Request(url, payload, verb) == [url |-> url, payload |-> payload, verb |-> verb]

\* SailUiForm.fill_field_by_attribute_and_index("label", label, "x", index)
FillField(label, index, result) ==
    /\ pc = "idle" /\ nverbs < MaxVerbs
    /\ nverbs' = nverbs + 1
    /\ verb_start' = FormFields
    /\ call' = Call("fill_field_by_attribute_and_index", label, index, "")
    /\ LET f == find_component_by_attribute_and_index_in_dict("label", label, index, state)
           b == fill_textfield(f.node, "x", context, uuid)
           reeval_url == get_update_url_for_reeval(state, form_url)
       IN IF f.kind # "node" THEN Raises(f.kind, state, <<>>)
          ELSE IF b.err # "" THEN Raises(b.err, state, <<>>)
          ELSE PostAndReconcile(state, <<Request(reeval_url, b.payload, nverbs + 1)>>, result, "idle")
    /\ UNCHANGED <<recVars, findVars, buildVars, gridVars, moreVars>>

\* SailUiForm._click(label, index=index) on a component that is no
\* StartProcessLink or ProcessTaskLink and wraps none
Click(label, index, result) ==
    /\ pc = "idle" /\ nverbs < MaxVerbs
    /\ nverbs' = nverbs + 1
    /\ verb_start' = FormFields
    /\ call' = Call("click", label, index, "")
    /\ LET f == find_component_by_attribute_and_index_in_dict("label", label, index, state)
           link_at == IF Truthy(Get(f.node, "link"))
                      THEN Append(f.at, KeyIndex(f.node, "link")) ELSE f.at
           c == click_component(state, link_at, context, uuid)
       IN IF f.kind # "node" THEN Raises(f.kind, state, <<>>)
          ELSE IF c.err # "" THEN Raises(c.err, c.st, <<>>)
          ELSE PostAndReconcile(c.st, <<Request(form_url, c.payload, nverbs + 1)>>, result, "idle")
    /\ UNCHANGED <<recVars, findVars, buildVars, gridVars, moreVars>>

\* SailUiForm.fill_picker_field("P", "x"), to the end of its first request
FillPickerText(result) ==
    /\ pc = "idle" /\ nverbs < MaxVerbs
    /\ nverbs' = nverbs + 1
    /\ verb_start' = FormFields
    /\ call' = Call("fill_picker_field", "P", 1, "")
    /\ LET f == find_component_by_label_and_type_dict("testLabel", "test-P", "PickerWidget", state)
           b == fill_pickerfield_text(f.node, "x", context, uuid)
       IN IF f.kind # "node" THEN Raises(f.kind, state, <<>>)
          ELSE IF b.err # "" THEN Raises(b.err, state, <<>>)
          ELSE PostAndReconcile(state, <<Request(form_url, b.payload, nverbs + 1)>>, result, "picker")
    /\ UNCHANGED <<recVars, findVars, buildVars, gridVars, moreVars>>

\* SailUiForm.fill_picker_field, from the second search to the end; v_choice
\* is the draw of random.choice
PickSuggestion(v_choice, result) ==
    /\ pc = "picker"
    /\ LET f == find_component_by_label_and_type_dict("testLabel", "test-P", "PickerWidget", state)
           suggestions_list == extract_all_by_label(f.node, "suggestions")
           identifiers == extract_all_by_label(List(suggestions_list), "identifier")
           id_index == IF Get(identifiers[1], "id") # None THEN "id" ELSE "#v"
           v_or_id == SelectSeq(identifiers, LAMBDA i : Truthy(Get(i, id_index)))
           b == select_pickerfield_suggestion(f.node, identifiers[v_choice], context, uuid)
       IN IF f.kind # "node" THEN v_choice = 1 /\ Raises(f.kind, state, sent)
          ELSE IF suggestions_list = <<>> THEN v_choice = 1 /\ Raises("no_suggestions", state, sent)
          ELSE IF identifiers = <<>> THEN v_choice = 1 /\ Raises("no_identifiers", state, sent)
          ELSE IF v_or_id = <<>> THEN v_choice = 1 /\ Raises("no_picker_values", state, sent)
          ELSE /\ v_choice \in 1..Len(v_or_id)
               /\ IF b.err # "" THEN Raises(b.err, state, sent)
                  ELSE PostAndReconcile(state, Append(sent, Request(form_url, b.payload, nverbs)),
                                        result, "idle")
    /\ UNCHANGED <<nverbs, verb_start, call, recVars, findVars, buildVars, gridVars, moreVars>>

\* SailUiForm.select_dropdown_item(label, choice_label)
SelectDropdownItem(label, choice_label, result) ==
    /\ pc = "idle" /\ nverbs < MaxVerbs
    /\ nverbs' = nverbs + 1
    /\ verb_start' = FormFields
    /\ call' = Call("select_dropdown_item", label, 1, choice_label)
    /\ LET f == find_component_by_attribute_in_dict("label", label, state)
           reeval_url == get_update_url_for_reeval(state, form_url)
           d == construct_and_send_dropdown_update(f.node, choice_label, context, uuid, None)
       IN IF f.kind # "node" THEN Raises(f.kind, state, <<>>)
          ELSE IF d.err # "" THEN RaisesInfo(d.err, d.info, state, <<>>)
          ELSE PostAndReconcile(state, <<Request(reeval_url, d.payload, nverbs + 1)>>,
                                result, "idle")
    /\ UNCHANGED <<recVars, findVars, buildVars, gridVars, moreVars>>

\* only the first validations field is looked at
validation_present_first_only(validations) ==
    validations # <<>> /\ Truthy(validations[1])

\* validation_present at the end of the loop of assert_no_validations_present
validation_present(validations) ==
    \E i \in 1..Len(validations) : Truthy(validations[i])

\* SailUiForm.assert_no_validations_present
AssertNoValidationsPresent ==
    /\ pc = "idle" /\ nverbs < MaxVerbs
    /\ nverbs' = nverbs + 1
    /\ verb_start' = FormFields
    /\ call' = Call("assert_no_validations_present", "", 0, "")
    /\ outcome' = IF validation_present(extract_all_by_label(state, "validations"))
                  THEN "validations_present" ELSE "returned"
    /\ error_info' = None
    /\ sent' = <<>>
    /\ UNCHANGED <<state, context, uuid, form_url, resp, pc>>
    /\ UNCHANGED <<recVars, findVars, buildVars, gridVars, moreVars>>

MaxChoice == 2   \* suggestions a picker response may carry

Next ==
    \/ \E label \in {"Name", "Missing"}, index \in 1..2, result \in PostResults :
          FillField(label, index, result)
    \/ \E label \in {"Submit", "Go"}, index \in 1..2, result \in PostResults :
          Click(label, index, result)
    \/ \E result \in PostResults : FillPickerText(result)
    \/ \E v_choice \in 1..MaxChoice, result \in PostResults : PickSuggestion(v_choice, result)
    \/ \E label \in {"Color", "Submit"}, choice_label \in {"Red", "Green", "Blue", "Pink"},
          result \in PostResults :
          SelectDropdownItem(label, choice_label, result)
    \/ AssertNoValidationsPresent

Spec == Init /\ [][Next]_vars

(***************************************************************************)
(* Properties of the form (Spec)                                           *)
(***************************************************************************)
\* C4: after every successful verb the stored context and uuid are the
\* context and uuid that the reconciled response carries
C4_StoredContextAndUuidFromResponse ==
    (pc = "idle" /\ outcome = "ok") =>
        /\ HasKey(resp, KEY_CONTEXT) => context = Get(resp, KEY_CONTEXT)
        /\ HasKey(resp, KEY_UUID) => uuid = Get(resp, KEY_UUID)

LocateFailures ==
    {"invalid_index", "no_components_with_type", "no_components_with_attribute",
     "index_out_of_range", "found_on_different_components", "could_not_find"}

\* C12: a verb that fails to locate its target component raises and leaves
\* the snapshot, uuid, context and update URL as they were when it began
C12_LocateFailureLeavesFormUnchanged ==
    (pc = "idle" /\ outcome \in LocateFailures) => FormFields = verb_start

(***************************************************************************)
(* SpecBuild: one _SaveRequestBuilder, its setters called in any order     *)
(* and any number of times, then build() once (every call site builds on   *)
(* a fresh save_builder())                                                 *)
(***************************************************************************)
\* a component with or without each of the keys build() reads
BuildComponent(own, on_submit, contents, val, cid) ==
    Dict(<<Pair("#t", Leaf("ButtonWidget"))>>
         \o (IF cid THEN <<Pair(CID_KEY, Leaf("c1"))>> ELSE <<>>)
         \o (IF val THEN <<Pair("value", Leaf("v0"))>> ELSE <<>>)
         \o (IF on_submit THEN <<Pair("onSubmitSaveInto", Leaf("s2"))>> ELSE <<>>)
         \o (IF own THEN <<Pair("saveInto", Leaf("s1"))>> ELSE <<>>)
         \o (CASE contents = "none" -> <<>>
               [] contents = "plain" -> <<Pair("contents", Dict(<<Pair("label", Leaf("l"))>>))>>
               [] contents = "list" ->
                     <<Pair("contents", List(<<Dict(<<Pair("saveInto", Leaf("s3"))>>)>>))>>
               [] contents = "saving" ->
                     <<Pair("contents", Dict(<<Pair("saveInto", Leaf("s3"))>>))>>))
BuildComponents ==
    {BuildComponent(own, on_submit, contents, val, cid) :
        own \in BOOLEAN, on_submit \in BOOLEAN,
        contents \in {"none", "plain", "list", "saving"}, val \in BOOLEAN, cid \in BOOLEAN}
BuildUuids == {Leaf("u1")}
BuildContexts == {Ctx("x1")}
\* value() is given a dict or a list; dict() is what the record-list verbs pass
BuildValues == {TextValue("x"), Dict(<<>>)}
BuildIdentifiers == {Dict(<<Pair("id", Leaf("i1"))>>)}

\* _SaveRequestBuilder.__init__
InitBuild ==
    /\ b_component = None /\ b_uuid = None /\ b_context = None /\ b_value = None
    /\ b_identifier = None
    /\ b_calls = {} /\ b_out = <<>> /\ b_pc = "new"
    /\ FormIdle /\ RecIdle /\ FindIdle /\ GridIdle /\ MoreIdle

Builder_component(c) ==
    /\ b_pc = "new"
    /\ b_component' = c /\ b_calls' = b_calls \cup {"component"}
    /\ UNCHANGED <<b_uuid, b_context, b_value, b_identifier, b_out, b_pc>>
    /\ UNCHANGED <<formVars, recVars, findVars, gridVars, moreVars>>
Builder_uuid(u) ==
    /\ b_pc = "new"
    /\ b_uuid' = u /\ b_calls' = b_calls \cup {"uuid"}
    /\ UNCHANGED <<b_component, b_context, b_value, b_identifier, b_out, b_pc>>
    /\ UNCHANGED <<formVars, recVars, findVars, gridVars, moreVars>>
Builder_context(x) ==
    /\ b_pc = "new"
    /\ b_context' = x /\ b_calls' = b_calls \cup {"context"}
    /\ UNCHANGED <<b_component, b_uuid, b_value, b_identifier, b_out, b_pc>>
    /\ UNCHANGED <<formVars, recVars, findVars, gridVars, moreVars>>
Builder_value(v) ==
    /\ b_pc = "new"
    /\ b_value' = v /\ b_calls' = b_calls \cup {"value"}
    /\ UNCHANGED <<b_component, b_uuid, b_context, b_identifier, b_out, b_pc>>
    /\ UNCHANGED <<formVars, recVars, findVars, gridVars, moreVars>>
Builder_identifier(i) ==
    /\ b_pc = "new"
    /\ b_identifier' = i /\ b_calls' = b_calls \cup {"identifier"}
    /\ UNCHANGED <<b_component, b_uuid, b_context, b_value, b_out, b_pc>>
    /\ UNCHANGED <<formVars, recVars, findVars, gridVars, moreVars>>

\* _SaveRequestBuilder.build: the payload or the error, and self._value,
\* which build() assigns when it was None
Builder_build ==
    /\ b_pc = "new"
    /\ b_out' = build(b_component, b_uuid, b_context, b_value, b_identifier)
    /\ b_value' = IF /\ missing_error(b_component, b_uuid, b_context) = ""
                     /\ b_value = None /\ HasKey(b_component, "value")
                  THEN Get(b_component, "value") ELSE b_value
    /\ b_pc' = "built"
    /\ UNCHANGED <<b_component, b_uuid, b_context, b_identifier, b_calls>>
    /\ UNCHANGED <<formVars, recVars, findVars, gridVars, moreVars>>

NextBuild ==
    \/ \E c \in BuildComponents : Builder_component(c)
    \/ \E u \in BuildUuids : Builder_uuid(u)
    \/ \E x \in BuildContexts : Builder_context(x)
    \/ \E v \in BuildValues : Builder_value(v)
    \/ \E i \in BuildIdentifiers : Builder_identifier(i)
    \/ Builder_build
SpecBuild == InitBuild /\ [][NextBuild]_vars

\* the setters among component, uuid and context that were never called
NeverSet == {"component", "uuid", "context"} \ b_calls
ErrorOf(k) ==
    CASE k = "component" -> "Component not set"
      [] k = "uuid" -> "uuid not set"
      [] k = "context" -> "context not set"

\* C13: build() raises the error of a setter that was never called, its own
\* error when it is the only one missing, and then builds no payload; a
\* payload is built only when component, uuid and context were all set
C13_MissingPartsAreDistinctErrors ==
    b_pc = "built" =>
        /\ \A k \in NeverSet : NeverSet = {k} => b_out.err = ErrorOf(k)
        /\ NeverSet # {} => /\ b_out.err \in {ErrorOf(k) : k \in NeverSet}
                            /\ b_out.payload = NoPayload
        /\ b_out.err = "" => NeverSet = {}
        /\ b_out.err # "" => b_out.payload = NoPayload
        /\ \A j, k \in {"component", "uuid", "context"} : j # k => ErrorOf(j) # ErrorOf(k)

\* only the context was never set, on a component that could be saved
C13_Witness ==
    /\ b_pc = "built" /\ NeverSet = {"context"} /\ "value" \in b_calls
    /\ save_into(b_component).found /\ HasKey(b_component, CID_KEY)
    /\ b_out.err = "context not set" /\ b_out.payload = NoPayload

\* build() got as far as reading saveInto
ReachedSaveInto ==
    /\ b_pc = "built" /\ NeverSet = {}
    /\ "value" \in b_calls \/ HasKey(b_component, "value")

\* C14: the saveInto of a built request is the component's saveInto, else its
\* onSubmitSaveInto, else its contents.saveInto, and build() raises "saveInto
\* not set" when the component has none of the three
C14_SaveIntoPriority ==
    ReachedSaveInto =>
        IF HasKey(b_component, "saveInto")
        THEN b_out.err = "" => b_out.payload.saveInto = Get(b_component, "saveInto")
        ELSE IF HasKey(b_component, "onSubmitSaveInto")
        THEN b_out.err = "" => b_out.payload.saveInto = Get(b_component, "onSubmitSaveInto")
        ELSE IF HasKey(Get(b_component, "contents"), "saveInto")
        THEN b_out.err = "" =>
                b_out.payload.saveInto = Get(Get(b_component, "contents"), "saveInto")
        ELSE b_out.err = "saveInto not set" /\ b_out.payload = NoPayload

\* a component with saveInto and a different onSubmitSaveInto
C14_Witness ==
    /\ ReachedSaveInto /\ b_out.err = ""
    /\ HasKey(b_component, "saveInto") /\ HasKey(b_component, "onSubmitSaveInto")
    /\ Get(b_component, "saveInto") # Get(b_component, "onSubmitSaveInto")
    /\ b_out.payload.saveInto = Get(b_component, "saveInto")

\* C15: the value of a built request is what value() was given, and the
\* component's own value when value() was never called
C15_ValueDefaultsToComponentValue ==
    (b_pc = "built" /\ b_out.err = "") =>
        IF "value" \in b_calls
        THEN b_out.payload.value = b_value /\ b_value \in BuildValues
        ELSE b_out.payload.value = Get(b_component, "value")

\* value() never called, on a component that has a value
C15_Witness ==
    /\ b_pc = "built" /\ b_out.err = "" /\ "value" \notin b_calls
    /\ b_out.payload.value = Leaf("v0")

(***************************************************************************)
(* GridInteractor. A grid component and a save value are functions from    *)
(* keys to values (a Python dict: k \in DOMAIN d is "k in d"); what        *)
(* dict.get(k) returns is an optional: [some |-> FALSE] stands for None.   *)
(***************************************************************************)
Nothing == [some |-> FALSE, v |-> <<>>]
Some(x) == [some |-> TRUE, v |-> x]
\* d.get(k)
DictGet(d, k) == IF k \in DOMAIN d THEN Some(d[k]) ELSE Nothing
\* the truth value of an optional list
TruthyOpt(o) == o.some /\ o.v # <<>>

\* GridInteractor._get_grid_data
get_grid_data(paging_grid) ==
    LET grid_value == paging_grid["value"]
        paging_info == IF "pagingInfo" \in DOMAIN grid_value
                          /\ DOMAIN grid_value["pagingInfo"] # {}
                       THEN grid_value["pagingInfo"] ELSE paging_grid["value"]
    IN [selected |-> DictGet(grid_value, "selected"),
        total_count |-> paging_grid["totalCount"],
        start_index |-> paging_info["startIndex"],
        batch_size |-> paging_info["batchSize"],
        sort_info |-> DictGet(paging_info, "sort")]

\* the nested flavor is written whatever was read
to_save_data_always_nested(grid_data, paging_grid) ==
    LET paging == ("startIndex" :> grid_data.start_index)
                  @@ ("batchSize" :> grid_data.batch_size)
        paging_info == IF TruthyOpt(grid_data.sort_info)
                       THEN paging @@ ("sort" :> grid_data.sort_info.v) ELSE paging
        save_data == ("#t" :> "GridSelection") @@ ("pagingInfo" :> paging_info)
    IN IF TruthyOpt(grid_data.selected)
       THEN save_data @@ ("selected" :> grid_data.selected.v) ELSE save_data

\* GridInteractor._to_save_data
to_save_data(grid_data, paging_grid) ==
    LET paging == ("startIndex" :> grid_data.start_index)
                  @@ ("batchSize" :> grid_data.batch_size)
        grid_value == paging_grid["value"]
    IN IF "pagingInfo" \notin DOMAIN grid_value
       THEN LET save_data == paging @@ ("#t" :> "PagingInfo")
            IN IF TruthyOpt(grid_data.sort_info)
               THEN save_data @@ ("sort" :> grid_data.sort_info.v) ELSE save_data
       ELSE LET paging_info == IF TruthyOpt(grid_data.sort_info)
                               THEN paging @@ ("sort" :> grid_data.sort_info.v) ELSE paging
                save_data == ("#t" :> "GridSelection") @@ ("pagingInfo" :> paging_info)
            IN IF TruthyOpt(grid_data.selected)
               THEN save_data @@ ("selected" :> grid_data.selected.v) ELSE save_data

\* what an operation hands back: the save value, or the error it raised
NoSaveData == ("#t" :> "")
Saved(save_data) == [err |-> "", save_data |-> save_data]
Failed(e) == [err |-> e, save_data |-> NoSaveData]

\* GridInteractor.select_rows; rows are 0-based positions in identifiers
select_rows(paging_grid, rows, append_to_existing_selected) ==
    LET grid_data == get_grid_data(paging_grid)
        identifiers == DictGet(paging_grid, "identifiers")
        previously_selected == grid_data.selected
    IN IF ~TruthyOpt(identifiers) THEN Failed("No identifiers found in grid.")
       ELSE IF \E i \in 1..Len(rows) : rows[i] >= Len(identifiers.v) THEN Failed("IndexError")
       ELSE LET currently_selected == [i \in 1..Len(rows) |-> identifiers.v[rows[i] + 1]]
            IN IF append_to_existing_selected
               THEN IF ~previously_selected.some THEN Failed("TypeError")
                    ELSE Saved(to_save_data(
                             [grid_data EXCEPT !.selected =
                                  Some(previously_selected.v \o currently_selected)],
                             paging_grid))
               ELSE Saved(to_save_data(
                        [grid_data EXCEPT !.selected = Some(currently_selected)], paging_grid))

\* GridInteractor.move_to_last_page
move_to_last_page(paging_grid) ==
    LET grid_data == get_grid_data(paging_grid)
        new_start_index == 1 + grid_data.total_count - grid_data.batch_size
    IN Saved(to_save_data([grid_data EXCEPT !.start_index = new_start_index], paging_grid))

\* GridInteractor.move_to_first_page
move_to_first_page(paging_grid) ==
    LET grid_data == get_grid_data(paging_grid)
    IN Saved(to_save_data([grid_data EXCEPT !.start_index = 1], paging_grid))

\* the move is refused as soon as the new index reaches the total count
move_to_the_right_strict(paging_grid) ==
    LET grid_data == get_grid_data(paging_grid)
        possible_new_index == grid_data.start_index + grid_data.batch_size
    IN IF grid_data.total_count <= possible_new_index
       THEN Saved(to_save_data(grid_data, paging_grid))
       ELSE Saved(to_save_data([grid_data EXCEPT !.start_index = possible_new_index],
                               paging_grid))

\* GridInteractor.move_to_the_right
move_to_the_right(paging_grid) ==
    LET grid_data == get_grid_data(paging_grid)
        possible_new_index == grid_data.start_index + grid_data.batch_size
    IN IF grid_data.total_count < possible_new_index
       THEN Saved(to_save_data(grid_data, paging_grid))
       ELSE Saved(to_save_data([grid_data EXCEPT !.start_index = possible_new_index],
                               paging_grid))

\* the move is made also when it lands on index 0
move_to_the_left_to_zero(paging_grid) ==
    LET grid_data == get_grid_data(paging_grid)
        possible_new_index == grid_data.start_index - grid_data.batch_size
    IN IF 0 > possible_new_index
       THEN Saved(to_save_data(grid_data, paging_grid))
       ELSE Saved(to_save_data([grid_data EXCEPT !.start_index = possible_new_index],
                               paging_grid))

\* GridInteractor.move_to_the_left
move_to_the_left(paging_grid) ==
    LET grid_data == get_grid_data(paging_grid)
        possible_new_index == grid_data.start_index - grid_data.batch_size
    IN IF 0 >= possible_new_index
       THEN Saved(to_save_data(grid_data, paging_grid))
       ELSE Saved(to_save_data([grid_data EXCEPT !.start_index = possible_new_index],
                               paging_grid))

\* Python's `sub in text` on the names and labels of the modelled columns
IsSubstring(sub, text) ==
    \/ sub = text
    \/ <<sub, text>> \in {<<"Na", "Name">>, <<"me", "Name">>, <<"ge", "Age">>,
                           <<"e", "Name">>, <<"e", "Age">>}

\* paging_grid.get("columns", [])
ColumnsOf(paging_grid) ==
    IF "columns" \in DOMAIN paging_grid THEN paging_grid["columns"] ELSE <<>>

\* labels are never searched
validate_grid_field_or_label_fields_only(field_name, paging_grid) == field_name

\* GridInteractor._validate_grid_field_or_label
validate_grid_field_or_label(field_name, paging_grid) ==
    LET columns == ColumnsOf(paging_grid)
        possible_field_names == {columns[i].field : i \in 1..Len(columns)}
        labelled == {i \in 1..Len(columns) : IsSubstring(field_name, columns[i].label)}
    IN IF field_name \in possible_field_names \/ labelled = {} THEN field_name
       ELSE columns[CHOOSE i \in labelled : \A j \in labelled : i <= j].field

\* GridInteractor.validate_sort: TRUE when it does not raise
validate_sort(field_name, paging_grid) ==
    LET columns == ColumnsOf(paging_grid)
    IN field_name \in {columns[i].field : i \in 1..Len(columns)}

\* GridInteractor._get_sort_info
get_sort_info(field_name, ascending) == <<[field |-> field_name, ascending |-> ascending]>>

\* the error of validate_sort: the name that was looked for and the
\* possible_field_names its message lists
CannotSort(field_name, paging_grid) ==
    LET columns == ColumnsOf(paging_grid)
    IN [err |-> "Cannot sort", save_data |-> NoSaveData, field_name |-> field_name,
        possible_field_names |-> [i \in 1..Len(columns) |-> columns[i].field]]

\* the default of sort_grid's ascending parameter
sort_grid_default_ascending == FALSE

\* GridInteractor.sort_grid
sort_grid(field_name, paging_grid, ascending) ==
    LET resolved == validate_grid_field_or_label(field_name, paging_grid)
        grid_data == get_grid_data(paging_grid)
    IN IF ~validate_sort(resolved, paging_grid) THEN CannotSort(resolved, paging_grid)
       ELSE Saved(to_save_data(
                [grid_data EXCEPT !.sort_info = Some(get_sort_info(resolved, ascending))],
                paging_grid))

(***************************************************************************)
(* SpecGrid: one operation of GridInteractor on every drawn grid           *)
(***************************************************************************)
MaxTotal == 4    \* largest totalCount of a grid
MaxBatch == 3    \* largest batchSize of a grid
MaxRows == 2     \* most rows asked for in one select_rows

GridColumns ==
    <<[field |-> "name", label |-> "Name"], [field |-> "rf_age", label |-> "Age"]>>
GridSort == <<[field |-> "rf_age", ascending |-> TRUE]>>
GridSelected == <<"id7">>
GridIdentifiers == <<"id3", "id9">>
Presence == {"absent", "empty", "present"}

\* a grid component in the legacy flavor (paging fields under value) or the
\* nested one (under value.pagingInfo, `selected` beside it)
GridOf(flavor, total, start, batch, sort, selected, identifiers) ==
    LET paging == ("startIndex" :> start) @@ ("batchSize" :> batch)
        paging_info == CASE sort = "absent" -> paging
                         [] sort = "empty" -> paging @@ ("sort" :> <<>>)
                         [] sort = "present" -> paging @@ ("sort" :> GridSort)
        nested == ("#t" :> "GridSelection") @@ ("pagingInfo" :> paging_info)
        grid_value ==
            IF flavor = "legacy" THEN paging_info @@ ("#t" :> "PagingInfo")
            ELSE CASE selected = "absent" -> nested
                   [] selected = "empty" -> nested @@ ("selected" :> <<>>)
                   [] selected = "present" -> nested @@ ("selected" :> GridSelected)
        grid == ("#t" :> (IF flavor = "legacy" THEN "PagingGridLayout" ELSE "GridField"))
                @@ ("value" :> grid_value) @@ ("totalCount" :> total)
                @@ ("columns" :> GridColumns)
    IN CASE identifiers = "absent" -> grid
         [] identifiers = "empty" -> grid @@ ("identifiers" :> <<>>)
         [] identifiers = "present" -> grid @@ ("identifiers" :> GridIdentifiers)

NoArgs ==
    [op |-> "", rows |-> <<>>, append |-> FALSE, field_name |-> "", ascending |-> FALSE,
     ascending_given |-> FALSE]

InitGrid ==
    /\ \E flavor \in {"legacy", "nested"}, total \in 0..MaxTotal, start \in 1..MaxTotal,
          batch \in 1..MaxBatch, sort \in Presence, selected \in Presence,
          identifiers \in Presence :
          /\ start <= total \/ start = 1
          /\ flavor = "legacy" => selected = "absent"
          /\ g_in = [paging_grid |-> GridOf(flavor, total, start, batch, sort, selected,
                                            identifiers),
                     args |-> NoArgs]
    /\ g_out = <<>> /\ g_pc = "init"
    /\ FormIdle /\ RecIdle /\ FindIdle /\ BuildIdle /\ MoreIdle

\* one call: the arguments are recorded beside the grid, the result in g_out
GridCall(args, result) ==
    /\ g_in' = [g_in EXCEPT !.args = args]
    /\ g_out' = result
    /\ g_pc' = "done"
    /\ UNCHANGED <<formVars, recVars, findVars, buildVars, moreVars>>

SelectRows(rows, append) ==
    /\ g_pc = "init"
    /\ GridCall([NoArgs EXCEPT !.op = "select_rows", !.rows = rows, !.append = append],
                select_rows(g_in.paging_grid, rows, append))
MoveToLastPage ==
    /\ g_pc = "init"
    /\ GridCall([NoArgs EXCEPT !.op = "move_to_last_page"],
                move_to_last_page(g_in.paging_grid))
MoveToFirstPage ==
    /\ g_pc = "init"
    /\ GridCall([NoArgs EXCEPT !.op = "move_to_first_page"],
                move_to_first_page(g_in.paging_grid))
MoveToTheRight ==
    /\ g_pc = "init"
    /\ GridCall([NoArgs EXCEPT !.op = "move_to_the_right"],
                move_to_the_right(g_in.paging_grid))
MoveToTheLeft ==
    /\ g_pc = "init"
    /\ GridCall([NoArgs EXCEPT !.op = "move_to_the_left"],
                move_to_the_left(g_in.paging_grid))
\* ascending is passed, or left to its default when given is FALSE
SortGrid(field_name, given, ascending) ==
    /\ g_pc = "init"
    /\ ~given => ascending = sort_grid_default_ascending
    /\ GridCall([NoArgs EXCEPT !.op = "sort_grid", !.field_name = field_name,
                               !.ascending = ascending, !.ascending_given = given],
                sort_grid(field_name, g_in.paging_grid, ascending))

\* the sequences of at most n row positions
RECURSIVE RowLists(_)
RowLists(n) ==
    IF n = 0 THEN {<<>>}
    ELSE RowLists(n - 1) \cup {Append(r, i) : r \in RowLists(n - 1), i \in 0..2}

NextGrid ==
    \/ \E rows \in RowLists(MaxRows), append \in BOOLEAN : SelectRows(rows, append)
    \/ MoveToLastPage
    \/ MoveToFirstPage
    \/ MoveToTheRight
    \/ MoveToTheLeft
    \/ \E field_name \in {"name", "Age", "ge", "e", "zzz"}, given \in BOOLEAN,
          ascending \in BOOLEAN :
          SortGrid(field_name, given, ascending)
SpecGrid == InitGrid /\ [][NextGrid]_vars

(***************************************************************************)
(* Properties of the grid operations (SpecGrid)                            *)
(***************************************************************************)
\* the grid as it was read, straight from the component
GridValue == g_in.paging_grid["value"]
GridNested == "pagingInfo" \in DOMAIN GridValue
ReadPaging == IF GridNested THEN GridValue["pagingInfo"] ELSE GridValue
ReadTotal == g_in.paging_grid["totalCount"]
HadSort == "sort" \in DOMAIN ReadPaging /\ ReadPaging["sort"] # <<>>
ReadSelected == IF "selected" \in DOMAIN GridValue THEN GridValue["selected"] ELSE <<>>
\* the save value of an operation that did not raise
GridDone == g_pc = "done" /\ g_out.err = ""
EmittedNested == "pagingInfo" \in DOMAIN g_out.save_data
EmittedPaging == IF EmittedNested THEN g_out.save_data["pagingInfo"] ELSE g_out.save_data
PagingKeys == {"startIndex", "batchSize", "sort"}

\* C16: every operation writes the nested flavor exactly when value held a
\* pagingInfo key and the flat one otherwise; first_page on a legacy grid
\* emits #t PagingInfo, startIndex 1, the batchSize read and, exactly when
\* the grid had a sort, that sort, and nothing else
C16_FlavorWrittenAsRead ==
    GridDone =>
        /\ EmittedNested <=> GridNested
        /\ GridNested =>
              /\ g_out.save_data["#t"] = "GridSelection"
              /\ {"startIndex", "batchSize"} \subseteq DOMAIN g_out.save_data["pagingInfo"]
              /\ DOMAIN g_out.save_data \cap PagingKeys = {}
        /\ ~GridNested =>
              /\ g_out.save_data["#t"] = "PagingInfo"
              /\ {"startIndex", "batchSize"} \subseteq DOMAIN g_out.save_data
        /\ (~GridNested /\ g_in.args.op = "move_to_first_page") =>
              /\ DOMAIN g_out.save_data = {"#t", "startIndex", "batchSize"}
                                          \cup (IF HadSort THEN {"sort"} ELSE {})
              /\ g_out.save_data["startIndex"] = 1
              /\ g_out.save_data["batchSize"] = ReadPaging["batchSize"]
              /\ HadSort => g_out.save_data["sort"] = ReadPaging["sort"]

\* first_page on a sorted legacy grid that stood on a later page
C16_Witness ==
    /\ GridDone /\ g_in.args.op = "move_to_first_page"
    /\ ~GridNested /\ HadSort /\ ReadPaging["startIndex"] > 1
    /\ DOMAIN g_out.save_data = {"#t", "startIndex", "batchSize", "sort"}
    /\ g_out.save_data["startIndex"] = 1

\* C17: page_right past the total count and page_left to zero or below keep
\* the start index read and do not raise; every other page_right or
\* page_left moves the start index by exactly the batch size
C17_PagingRefusedAtTheEnds ==
    (g_pc = "done" /\ g_in.args.op \in {"move_to_the_right", "move_to_the_left"}) =>
        LET start == ReadPaging["startIndex"]
            batch == ReadPaging["batchSize"]
        IN /\ g_out.err = ""
           /\ g_in.args.op = "move_to_the_right" =>
                 EmittedPaging["startIndex"] =
                     IF start + batch > ReadTotal THEN start ELSE start + batch
           /\ g_in.args.op = "move_to_the_left" =>
                 EmittedPaging["startIndex"] =
                     IF start - batch <= 0 THEN start ELSE start - batch

\* page_right on the only page of a grid: totalCount = batchSize, startIndex 1
C17_Witness ==
    /\ GridDone /\ g_in.args.op = "move_to_the_right"
    /\ ReadTotal = ReadPaging["batchSize"] /\ ReadPaging["startIndex"] = 1
    /\ EmittedPaging["startIndex"] = 1

\* C18: last_page emits 1 + totalCount - batchSize, and 1 when that is less
\* than 1: the start index it emits is never below 1
C18_LastPageClampedAtOne ==
    (g_pc = "done" /\ g_in.args.op = "move_to_last_page") =>
        LET last == 1 + ReadTotal - ReadPaging["batchSize"]
        IN /\ g_out.err = ""
           /\ EmittedPaging["startIndex"] >= 1
           /\ EmittedPaging["startIndex"] = IF last < 1 THEN 1 ELSE last

\* the identifiers select_rows is asked for, when every row is a position of
\* the identifiers array
RowsValid ==
    /\ "identifiers" \in DOMAIN g_in.paging_grid
    /\ \A i \in 1..Len(g_in.args.rows) :
          g_in.args.rows[i] < Len(g_in.paging_grid["identifiers"])
AskedFor ==
    [i \in 1..Len(g_in.args.rows) |-> g_in.paging_grid["identifiers"][g_in.args.rows[i] + 1]]
\* the selection after the operation: the one select_rows makes, else the
\* one that was read
SelectionAfter ==
    IF g_in.args.op = "select_rows"
    THEN (IF g_in.args.append THEN ReadSelected ELSE <<>>) \o AskedFor
    ELSE ReadSelected

\* C19: every operation's save value holds startIndex and batchSize, the
\* sort when the grid has one and `selected` when a selection is present, in
\* either flavor; what the operation did not target is as it was read
C19_UntouchedFieldsReemitted ==
    GridDone =>
        /\ {"startIndex", "batchSize"} \subseteq DOMAIN EmittedPaging
        /\ EmittedPaging["batchSize"] = ReadPaging["batchSize"]
        /\ g_in.args.op \in {"select_rows", "sort_grid"} =>
              EmittedPaging["startIndex"] = ReadPaging["startIndex"]
        /\ (HadSort /\ g_in.args.op # "sort_grid") =>
              /\ "sort" \in DOMAIN EmittedPaging
              /\ EmittedPaging["sort"] = ReadPaging["sort"]
        /\ g_in.args.op = "sort_grid" => "sort" \in DOMAIN EmittedPaging
        /\ SelectionAfter # <<>> =>
              /\ "selected" \in DOMAIN g_out.save_data
              /\ g_out.save_data["selected"] = SelectionAfter

\* C20: select_rows fails on a grid without identifiers; otherwise it emits
\* as `selected` the identifiers at the rows asked for, in that order, after
\* the grid's existing selection (if any) when appending
C20_SelectMapsRowsToIdentifiers ==
    (g_pc = "done" /\ g_in.args.op = "select_rows") =>
        IF "identifiers" \notin DOMAIN g_in.paging_grid
           \/ g_in.paging_grid["identifiers"] = <<>>
        THEN g_out.err # ""
        ELSE RowsValid =>
                /\ g_out.err = ""
                /\ SelectionAfter # <<>> =>
                      /\ "selected" \in DOMAIN g_out.save_data
                      /\ g_out.save_data["selected"] = SelectionAfter

\* the name sort_grid sorts by: the name given when it is a column's field,
\* else the field of the first column whose label contains it, else the name
ResolvedField ==
    LET columns == g_in.paging_grid["columns"]
        name == g_in.args.field_name
        by_label == {i \in 1..Len(columns) : IsSubstring(name, columns[i].label)}
    IN IF \E i \in 1..Len(columns) : columns[i].field = name THEN name
       ELSE IF by_label # {}
       THEN columns[CHOOSE i \in by_label : \A j \in by_label : i <= j].field
       ELSE name

\* C21: sort_grid sorts by the name given when it is a column's field, else
\* by the field of a column whose label contains it; a resolved name that is
\* no column's field raises an error listing every column field and emits
\* nothing; otherwise the save value's sort is the single entry
\* [field: resolved, ascending], ascending being false unless given
C21_SortResolvesFieldOrLabel ==
    (g_pc = "done" /\ g_in.args.op = "sort_grid") =>
        LET columns == g_in.paging_grid["columns"]
        IN IF \E i \in 1..Len(columns) : columns[i].field = ResolvedField
           THEN /\ g_out.err = ""
                /\ EmittedPaging["sort"] =
                      <<[field |-> ResolvedField,
                         ascending |-> IF g_in.args.ascending_given
                                       THEN g_in.args.ascending ELSE FALSE]>>
           ELSE /\ g_out.err = "Cannot sort"
                /\ g_out.save_data = NoSaveData
                /\ g_out.possible_field_names = [i \in 1..Len(columns) |-> columns[i].field]

\* sorting by a label, ascending left to its default
C21_Witness ==
    /\ GridDone /\ g_in.args.op = "sort_grid"
    /\ g_in.args.field_name = "Age" /\ ~g_in.args.ascending_given
    /\ EmittedPaging["sort"] = <<[field |-> "rf_age", ascending |-> FALSE]>>

(***************************************************************************)
(* More properties of the form (Spec)                                      *)
(***************************************************************************)
\* the entries of a snapshot's links whose rel is "update", as positions
UpdateEntries(st) ==
    IF HasKey(st, "links")
    THEN {i \in 1..Len(Get(st, "links").kids) :
             Get(Get(st, "links").kids[i].val, "rel") = Leaf("update")}
    ELSE {}
\* the path of the href of the first of them
UpdateEntryPath(st) ==
    LET i == CHOOSE i \in UpdateEntries(st) : \A j \in UpdateEntries(st) : i <= j
    IN UrlPath(Get(Get(st, "links").kids[i].val, "href").s)
\* a step that reconciled a response
Reconciled(o) == o \in {"ok", "pending"}

DropdownAtStart ==
    LET hits == SelectSeq(Preorder(verb_start.state, <<>>),
                          LAMBDA p : Get(At(verb_start.state, p), "label") = Leaf(call.label))
    IN At(verb_start.state, hits[1])
ChoicesAtStart == Get(DropdownAtStart, "choices").kids
\* the verb ran on a component that has choices
SelectedOnDropdown ==
    /\ pc = "idle" /\ call.verb = "select_dropdown_item"
    /\ \E p \in PathsOf(verb_start.state) :
          Get(At(verb_start.state, p), "label") = Leaf(call.label)
    /\ ChoicesAtStart # <<>>

\* C23: select_dropdown_item with one of the component's choices sends the
\* value [#t: Integer, #v: k], k the position (from 1) of the choice; with
\* any other choice it raises an error that lists the choices, sends nothing
\* and leaves the snapshot as it was
C23_DropdownSendsChoicePosition ==
    SelectedOnDropdown =>
        LET at == {k \in 1..Len(ChoicesAtStart) : ChoicesAtStart[k].val = Leaf(call.choice)}
        IN IF at # {}
           THEN /\ Len(sent) = 1
                /\ \E k \in at :
                      /\ \A j \in at : k <= j
                      /\ sent[1].payload.value =
                            Dict(<<Pair("#t", Leaf("Integer")), Pair("#v", IntLeaf(k))>>)
           ELSE /\ outcome = "choice_not_found"
                /\ error_info = Get(DropdownAtStart, "choices")
                /\ sent = <<>>
                /\ state = verb_start.state

\* Green among Red, Green, Blue
C23_Witness ==
    /\ SelectedOnDropdown /\ call.choice = "Green" /\ outcome = "ok"
    /\ sent[1].payload.value.kids[2].val = IntLeaf(2)

\* some validations field of the snapshot, at any depth, is non-empty
SomeValidation ==
    \E p \in PathsOf(state) :
        HasKey(At(state, p), "validations") /\ Truthy(Get(At(state, p), "validations"))

\* C24: assert_no_validations_present raises exactly when some validations
\* field of the snapshot, at any depth, is non-empty, returns otherwise, and
\* either way leaves the snapshot, uuid, context and update URL as they were
C24_ValidationsAsserted ==
    (pc = "idle" /\ call.verb = "assert_no_validations_present") =>
        /\ outcome \in {"validations_present", "returned"}
        /\ outcome = "validations_present" <=> SomeValidation
        /\ FormFields = verb_start

\* the snapshot holds an empty validations field before a non-empty one
C24_Witness ==
    /\ pc = "idle" /\ call.verb = "assert_no_validations_present"
    /\ outcome = "validations_present"
    /\ LET v == extract_all_by_label(state, "validations")
       IN Len(v) = 2 /\ ~Truthy(v[1]) /\ Truthy(v[2])

\* ---------------------------------------------------------------------------
\* AppianTaskSet._determine_auth over the starts of one parent's users
\* (specification SpecAuth)
\* ---------------------------------------------------------------------------

MaxPairs == 3    \* pairs the credentials list may be configured with
MaxStarts == 4   \* simulated users started

\* a [username, password] pair, told apart by its username
Pair_(user) == [user |-> user]
\* an auth attribute that is None
NoAuth == Pair_("")
TheAuth == Pair_("admin")
\* bool(auth)
AuthTruthy(auth) == auth # NoAuth
CredentialUsers == {"user" \o IntLeaf(k).s : k \in 1..MaxPairs}

\* a last pair of credentials is kept even when auth is configured
determine_auth_keep_last(credentials, auth) ==
    IF credentials.list /\ credentials.v # <<>>
    THEN IF Len(credentials.v) > 1
         THEN [auth |-> Head(credentials.v),
               credentials |-> [list |-> TRUE, v |-> Tail(credentials.v)]]
         ELSE [auth |-> credentials.v[1], credentials |-> credentials]
    ELSE [auth |-> auth, credentials |-> credentials]

\* AppianTaskSet._determine_auth: the pair returned and parent.credentials after
determine_auth(credentials, auth) ==
    IF credentials.list /\ credentials.v # <<>>
    THEN IF Len(credentials.v) > 1 \/ (Len(credentials.v) = 1 /\ AuthTruthy(auth))
         THEN [auth |-> Head(credentials.v),
               credentials |-> [list |-> TRUE, v |-> Tail(credentials.v)]]
         ELSE [auth |-> credentials.v[1], credentials |-> credentials]
    ELSE [auth |-> auth, credentials |-> credentials]

\* lists of distinct pairs
CredentialLists ==
    {c \in UNION {[1..n -> {Pair_(u) : u \in CredentialUsers}] : n \in 0..MaxPairs} :
        \A i, j \in DOMAIN c : c[i] = c[j] => i = j}

InitAuth ==
    /\ a_auth \in {NoAuth, TheAuth}
    /\ \E l \in BOOLEAN : \E c \in CredentialLists :
          /\ ~l => c = <<>>
          /\ a_credentials = [list |-> l, v |-> c]
          /\ a_config = c
    /\ a_given = <<>>
    /\ FormIdle /\ RecIdle /\ FindIdle /\ BuildIdle /\ GridIdle /\ CacheIdle /\ PagingIdle /\ LoginIdle
    /\ FindGridIdle

\* AppianTaskSet.on_start, as far as the parent's credentials go
OnStart ==
    /\ Len(a_given) < MaxStarts
    /\ LET r == determine_auth(a_credentials, a_auth)
       IN /\ a_given' = Append(a_given, r.auth)
          /\ a_credentials' = r.credentials
    /\ UNCHANGED <<a_auth, a_config>>
    /\ UNCHANGED <<formVars, recVars, findVars, buildVars, gridVars, cacheVars, pagingVars, loginVars,
                   findGridVars>>

NextAuth == OnStart
SpecAuth == InitAuth /\ [][NextAuth]_vars

OnlyCredentials == a_config # <<>> /\ ~AuthTruthy(a_auth)
CredentialsAndAuth == a_config # <<>> /\ AuthTruthy(a_auth)
Fallback == IF AuthTruthy(a_auth) THEN a_auth ELSE a_config[Len(a_config)]

\* C25: with only credentials, start i gets pair i until one pair is left and
\* every later start gets that last pair, the list never becoming empty; with
\* credentials and auth, start i gets pair i while there are pairs and auth
\* after; no pair but the final fallback is given to two starts
C25_CredentialsHandedOut ==
    LET n == Len(a_config)
        k == Len(a_given)
    IN /\ OnlyCredentials =>
            /\ \A i \in 1..k : a_given[i] = a_config[IF i < n THEN i ELSE n]
            /\ a_credentials.v = SubSeq(a_config, IF k < n THEN k + 1 ELSE n, n)
            /\ a_credentials.v # <<>>
       /\ CredentialsAndAuth =>
            /\ \A i \in 1..k : a_given[i] = IF i <= n THEN a_config[i] ELSE a_auth
            /\ a_credentials.v = SubSeq(a_config, k + 1, n)
       /\ a_config # <<>> =>
            \A i, j \in 1..k : (i # j /\ a_given[i] = a_given[j]) => a_given[i] = Fallback

\* two pairs and auth configured, four users started
C25_Witness ==
    /\ CredentialsAndAuth /\ Len(a_config) = 2 /\ Len(a_given) = 4
    /\ a_given = a_config \o <<a_auth, a_auth>>

\* ---------------------------------------------------------------------------
\* DataTypeCache, fed by form construction and reconciliation
\* (specification SpecCache)
\* ---------------------------------------------------------------------------

MaxIds == 2       \* distinct datatype ids a response may name
MaxEntries == 2   \* datatypes one response may list

\* str.endswith("DataType?list") on the type names drawn
EndsWithDataTypeList(text) == text \in {"DataType?list", "n1:DataType?list"}

\* the cache holds the ids of the last response only
add_datatypes_replacing(cached, entries, i) ==
    [cached |-> {entries[j].val.kids[1].val.s :
                    j \in {x \in 1..Len(entries) : HasKey(entries[x].val, "id")}},
     err |-> ""]

\* the loop of DataTypeCache.cache from entry i on: str(dt["id"]) is added
\* for each entry until one has no id
RECURSIVE add_datatypes(_, _, _)
add_datatypes(cached, entries, i) ==
    IF i > Len(entries) THEN [cached |-> cached, err |-> ""]
    ELSE LET dt == entries[i].val
         IN IF ~HasKey(dt, "id") THEN [cached |-> cached, err |-> "KeyError"]
            ELSE add_datatypes(cached \cup {Get(dt, "id").s}, entries, i + 1)

\* DataTypeCache.cache: the set afterwards and the exception raised, if any
cache(cached, response_in_json) ==
    IF response_in_json = None \/ ~HasKey(response_in_json, "#s")
    THEN [cached |-> cached, err |-> ""]
    ELSE LET s_ == Get(response_in_json, "#s")
             t_ == IF HasKey(s_, "#t") THEN Get(s_, "#t") ELSE Leaf("")
         IN IF ~IsDict(s_) \/ t_.t # "leaf" THEN [cached |-> cached, err |-> "AttributeError"]
            ELSE IF ~EndsWithDataTypeList(t_.s) THEN [cached |-> cached, err |-> ""]
            ELSE IF ~HasKey(s_, "#v") THEN [cached |-> cached, err |-> "KeyError"]
            ELSE add_datatypes(cached, Get(s_, "#v").kids, 1)

DataTypeEntries ==
    {Dict(<<Pair("id", IntLeaf(k))>>) : k \in 1..MaxIds}
    \cup {Dict(<<Pair("id", Leaf(IntLeaf(k).s))>>) : k \in 1..MaxIds}
    \cup {Dict(<<Pair("name", Leaf("Text"))>>)}
DataTypeLists == UNION {[1..n -> DataTypeEntries] : n \in 0..MaxEntries}
Side(t_, v) == Dict(<<Pair("#s", Dict(<<Pair("#t", t_), Pair("#v", List(v))>>))>>)
CacheResponses ==
    {Side(Leaf(t_), v) : t_ \in {"DataType?list", "n1:DataType?list"}, v \in DataTypeLists}
    \cup {Side(Leaf("Text?list"), <<Dict(<<Pair("id", IntLeaf(1))>>)>>),
          Side(IntLeaf(1), <<>>),
          Dict(<<Pair("#s", List(<<>>))>>),
          Dict(<<Pair("#s", Dict(<<Pair("#t", Leaf("DataType?list"))>>))>>),
          Dict(<<Pair("#s", Dict(<<Pair("#v", List(<<Dict(<<Pair("id", IntLeaf(1))>>)>>))>>))>>),
          Dict(<<Pair("ui", Dict(<<>>))>>),
          None}

InitCache ==
    /\ c_cache = {} /\ c_prev = {} /\ c_resp = None /\ c_err = ""
    /\ FormIdle /\ RecIdle /\ FindIdle /\ BuildIdle /\ GridIdle /\ AuthIdle /\ PagingIdle
    /\ LoginIdle /\ FindGridIdle

CacheCall(response) ==
    LET r == cache(c_cache, response)
    IN /\ c_prev' = c_cache
       /\ c_resp' = response
       /\ c_cache' = r.cached
       /\ c_err' = r.err
       /\ UNCHANGED <<formVars, recVars, findVars, buildVars, gridVars, authVars, pagingVars,
                      loginVars, findGridVars>>

\* SailUiForm.__init__ caching the datatypes of the form's state
Construct(response) ==
    /\ c_err \in {"", "KeyError", "AttributeError"}
    /\ response # None
    /\ CacheCall(response)

\* SailUiForm._reconcile_state caching the datatypes of the response
ReconcileState(response) ==
    /\ c_err \in {"", "KeyError", "AttributeError"}
    /\ CacheCall(response)

NextCache ==
    \E response \in CacheResponses :
        \/ Construct(response)
        \/ ReconcileState(response)
SpecCache == InitCache /\ [][NextCache]_vars

\* the datatype ids a response names
IdsOf(response) ==
    IF /\ HasKey(response, "#s") /\ HasKey(Get(response, "#s"), "#t")
       /\ Get(Get(response, "#s"), "#t").t = "leaf"
       /\ EndsWithDataTypeList(Get(Get(response, "#s"), "#t").s)
       /\ HasKey(Get(response, "#s"), "#v")
    THEN LET v == Get(Get(response, "#s"), "#v").kids
         IN {Get(v[i].val, "id").s : i \in {j \in 1..Len(v) : HasKey(v[j].val, "id")}}
    ELSE {}

\* C26: a cache() call never removes a datatype id, and one given a response
\* whose ids are all cached already leaves the set as it was
C26_CacheAppendOnly ==
    /\ c_prev \subseteq c_cache
    /\ IdsOf(c_resp) \subseteq c_prev => c_cache = c_prev
    /\ c_cache \subseteq c_prev \cup IdsOf(c_resp)

\* a response naming cached ids only arrived at a cache holding more than those
C26_Witness ==
    /\ IdsOf(c_resp) # {} /\ IdsOf(c_resp) \subseteq c_prev
    /\ c_prev # IdsOf(c_resp) /\ c_cache = c_prev

\* ---------------------------------------------------------------------------
\* paging a grid back and forth, each operation applied to the paging state
\* the one before emitted (specification SpecPaging)
\* ---------------------------------------------------------------------------

MaxOps == 3   \* paging operations applied in a row

\* a nested grid whose pagingInfo is empty, the paging fields lying under value
GridWithEmptyPagingInfo(total, start, batch) ==
    ("#t" :> "GridField") @@ ("totalCount" :> total) @@ ("columns" :> GridColumns)
    @@ ("value" :> (("#t" :> "GridSelection") @@ ("pagingInfo" :> <<>>)
                    @@ ("startIndex" :> start) @@ ("batchSize" :> batch)))

InitPaging ==
    /\ \E flavor \in {"legacy", "nested", "nested_empty"}, total \in 1..MaxTotal,
          start \in 1..MaxTotal, batch \in 1..MaxBatch, sort \in Presence,
          selected \in Presence :
          /\ start <= total
          /\ flavor = "legacy" => selected = "absent"
          /\ flavor = "nested_empty" => selected = "absent" /\ sort = "absent"
          /\ p_grid = IF flavor = "nested_empty"
                      THEN GridWithEmptyPagingInfo(total, start, batch)
                      ELSE GridOf(flavor, total, start, batch, sort, selected, "absent")
    /\ p_init = p_grid
    /\ p_ops = <<>>
    /\ FormIdle /\ RecIdle /\ FindIdle /\ BuildIdle /\ GridIdle /\ AuthIdle /\ CacheIdle
    /\ LoginIdle /\ FindGridIdle

\* the save value an operation emitted becomes the grid's value
Paged(op, result) ==
    /\ p_grid' = [p_grid EXCEPT !["value"] = result.save_data]
    /\ p_ops' = Append(p_ops, op)
    /\ UNCHANGED p_init
    /\ UNCHANGED <<formVars, recVars, findVars, buildVars, gridVars, authVars, cacheVars,
                   loginVars, findGridVars>>

PageRight ==
    /\ Len(p_ops) < MaxOps
    /\ Paged("page_right", move_to_the_right(p_grid))

PageLeft ==
    /\ Len(p_ops) < MaxOps
    /\ Paged("page_left", move_to_the_left(p_grid))

FirstPage ==
    /\ Len(p_ops) < MaxOps
    /\ Paged("first_page", move_to_first_page(p_grid))

NextPaging == PageRight \/ PageLeft \/ FirstPage
SpecPaging == InitPaging /\ [][NextPaging]_vars

\* where a grid's paging fields lie
PagingOf(grid) ==
    IF "pagingInfo" \in DOMAIN grid["value"] /\ grid["value"]["pagingInfo"] # <<>>
    THEN grid["value"]["pagingInfo"] ELSE grid["value"]

\* C27: from a grid with batchSize >= 1 and 1 <= startIndex <= totalCount,
\* any sequence of page_right, page_left and first_page, each applied to the
\* state the one before emitted, keeps 1 <= startIndex <= totalCount and
\* leaves batchSize as it was
C27_PagingStaysInRange ==
    /\ PagingOf(p_grid)["startIndex"] >= 1
    /\ PagingOf(p_grid)["startIndex"] <= p_grid["totalCount"]
    /\ PagingOf(p_grid)["batchSize"] = PagingOf(p_init)["batchSize"]
    /\ p_grid["totalCount"] = p_init["totalCount"]

\* two pages of two rows: right, a refused right, then left back to row 1
C27_Witness ==
    /\ p_ops = <<"page_right", "page_right", "page_left">>
    /\ p_grid["totalCount"] = 4 /\ PagingOf(p_init)["batchSize"] = 2
    /\ PagingOf(p_init)["startIndex"] = 1 /\ PagingOf(p_grid)["startIndex"] = 1

\* ---------------------------------------------------------------------------
\* _Interactor.login against a server (specification SpecLogin)
\* ---------------------------------------------------------------------------

MaxDepth == 4   \* login() calls that may be in progress before RecursionError

\* one login() call: its retry and check_login arguments, where it stands,
\* and resp.ok of its Login.SubmitAuth response
LoginFrame(retry, check_login, at) ==
    [retry |-> retry, check_login |-> check_login, pc |-> at, ok |-> FALSE]

\* how a server may answer: whether it accepts the credentials, whether its
\* rejection is an ok response, whether it marks responses to requests made
\* while authenticated, whether it sets the multipart token on login, and
\* whether the sign-in page of an authenticated session brings a new token
Servers ==
    [accepts : BOOLEAN, ok_on_reject : BOOLEAN, header : BOOLEAN, multipart : BOOLEAN,
     token_when_authed : BOOLEAN]

TopFrame == l_stack[Len(l_stack)]
SetTop(frame) == [l_stack EXCEPT ![Len(l_stack)] = frame]

InitLogin ==
    /\ \E check_login \in BOOLEAN : l_stack = <<LoginFrame(TRUE, check_login, "load")>>
    /\ l_authed \in BOOLEAN
    /\ l_multipart = FALSE
    /\ l_server \in Servers
    /\ l_posts = 0
    /\ l_result = ""
    /\ FormIdle /\ RecIdle /\ FindIdle /\ BuildIdle /\ GridIdle
    /\ AuthIdle /\ CacheIdle /\ PagingIdle /\ FindGridIdle

\* the innermost login() returns (client, resp)
ReturnFromLogin ==
    /\ l_stack' = SubSeq(l_stack, 1, Len(l_stack) - 1)
    /\ l_result' = IF Len(l_stack) = 1 THEN "returned" ELSE l_result

\* an exception nothing catches ends every login() in progress
RaiseFromLogin(e) ==
    /\ l_stack' = <<>>
    /\ l_result' = e

\* a further login() is called while `waiting` is how the caller stands
CallLogin(waiting, retry) ==
    IF Len(l_stack) >= MaxDepth THEN RaiseFromLogin("RecursionError")
    ELSE /\ l_stack' = Append(SetTop(waiting), LoginFrame(retry, TRUE, "load"))
         /\ UNCHANGED l_result

LoginFrameVars == <<formVars, recVars, findVars, buildVars, gridVars, authVars, cacheVars,
                    pagingVars, findGridVars>>

\* login() up to the answer of Login.LoadUi: without a new CSRF token the
\* session counts as logged in
LoadUi ==
    /\ l_stack # <<>> /\ TopFrame.pc = "load"
    /\ IF l_authed /\ ~l_server.token_when_authed
       THEN ReturnFromLogin
       ELSE l_stack' = SetTop([TopFrame EXCEPT !.pc = "post"]) /\ UNCHANGED l_result
    /\ UNCHANGED <<l_authed, l_multipart, l_server, l_posts>>
    /\ UNCHANGED LoginFrameVars

\* the Login.SubmitAuth POST inside post_page, with post_page's
\* check_post_response_for_valid_auth on its response
SubmitAuth ==
    /\ l_stack # <<>> /\ TopFrame.pc = "post"
    /\ l_posts' = l_posts + 1
    /\ l_authed' = (l_authed \/ l_server.accepts)
    /\ LET ok == l_server.accepts \/ l_server.ok_on_reject
           requested_while_authenticated == l_server.header /\ l_authed
           cookie == l_multipart \/ (l_server.accepts /\ l_server.multipart)
           checked == [TopFrame EXCEPT !.pc = "checked", !.ok = ok]
       IN IF ~requested_while_authenticated /\ ~l_authed'
          THEN /\ l_multipart' = FALSE
               /\ CallLogin(checked, TRUE)
          ELSE /\ l_multipart' = cookie
               /\ l_stack' = SetTop(checked)
               /\ UNCHANGED l_result
    /\ UNCHANGED l_server
    /\ UNCHANGED LoginFrameVars

\* the rest of post_page (test_response_for_error, raise_for_status) and of
\* login() after it
AfterPost ==
    /\ l_stack # <<>> /\ TopFrame.pc = "checked"
    /\ IF ~TopFrame.ok /\ TopFrame.check_login THEN RaiseFromLogin("HTTPError")
       ELSE IF ~TopFrame.ok THEN RaiseFromLogin("BadCredentialsException")
       ELSE IF ~l_multipart
            THEN IF TopFrame.retry
                 THEN CallLogin([TopFrame EXCEPT !.pc = "tail"], FALSE)
                 ELSE RaiseFromLogin("MissingCsrfTokenException")
       ELSE ReturnFromLogin
    /\ UNCHANGED <<l_authed, l_multipart, l_server, l_posts>>
    /\ UNCHANGED LoginFrameVars

\* `return self.login(auth, retry=False)` once the retried login returned
ReturnRetried ==
    /\ l_stack # <<>> /\ TopFrame.pc = "tail"
    /\ ReturnFromLogin
    /\ UNCHANGED <<l_authed, l_multipart, l_server, l_posts>>
    /\ UNCHANGED LoginFrameVars

NextLogin == LoadUi \/ SubmitAuth \/ AfterPost \/ ReturnRetried
SpecLogin == InitLogin /\ [][NextLogin]_vars

\* C28: login sends at most two Login.SubmitAuth POSTs (the first and one
\* retry for a missing multipart token, after which it raises
\* MissingCsrfTokenException), and the authentication check on the POST's
\* response starts no chain of further logins
C28_LoginBounded ==
    /\ l_posts <= 2
    /\ l_result # "RecursionError"
    /\ l_result = "MissingCsrfTokenException" => l_posts = 2

\* the other half of C28's statement: a login whose credentials the server
\* rejected ends with BadCredentialsException
C28_RejectionRaisesBadCredentials ==
    (l_result # "" /\ ~l_server.accepts /\ l_posts > 0) =>
        l_result = "BadCredentialsException"

\* the part of C28 that the code keeps: a server that accepts the credentials
\* and never sets the multipart token is asked twice and no more
C28_RetryOnceOnMissingToken ==
    (l_server.accepts /\ ~l_server.multipart) =>
        /\ l_posts <= 2
        /\ l_result = "MissingCsrfTokenException" => l_posts = 2

\* ---------------------------------------------------------------------------
\* GridInteractor.find_grid_by_index on drawn forms (specification SpecFindGrid)
\* ---------------------------------------------------------------------------

MaxGridComps == 3   \* components of a drawn form
MaxGridIndex == 3   \* largest index asked for

\* helper._extract: the dicts of the tree whose `key` holds one of vals, a
\* dict being yielded where its items reach that key
RECURSIVE extract(_, _, _)
extract(obj, key, vals) ==
    IF IsDict(obj)
    THEN Flatten([i \in 1..Len(obj.kids) |->
            LET k == obj.kids[i].key
                v == obj.kids[i].val
            IN IF IsDict(v) \/ IsList(v) THEN extract(v, key, vals)
               ELSE IF k = key /\ v \in vals THEN <<obj>> ELSE <<>>])
    ELSE IF IsList(obj)
    THEN Flatten([i \in 1..Len(obj.kids) |-> extract(obj.kids[i].val, key, vals)])
    ELSE <<>>

extract_values_multiple_key_values(obj, key, vals) == extract(obj, key, vals)

GridFound(grid) == [err |-> "", grid |-> grid]
GridError(e) == [err |-> e, grid |-> None]

\* GridInteractor.find_grid_by_index
find_grid_by_index(index, form) ==
    LET grids == extract_values_multiple_key_values(
                     form, "#t", {Leaf("PagingGridLayout"), Leaf("GridField")})
    IN IF grids = <<>> THEN GridError("No grids found in form")
       ELSE IF Len(grids) < index THEN GridError("Index out of range")
       ELSE IF index >= Len(grids) \/ index < -Len(grids) THEN GridError("IndexError")
       ELSE GridFound(grids[IF index >= 0 THEN index + 1 ELSE Len(grids) + index + 1])

\* the component at place k of a drawn form: a grid of either type, a grid
\* inside a section, or a text field
GridShapes(k) ==
    LET c == "c" \o IntLeaf(k).s
    IN {Dict(<<Pair("#t", Leaf("GridField")), Pair(CID_KEY, Leaf(c))>>),
        Dict(<<Pair("#t", Leaf("PagingGridLayout")), Pair(CID_KEY, Leaf(c))>>),
        Dict(<<Pair("#t", Leaf("SectionLayout")),
               Pair("contents", List(<<Dict(<<Pair("#t", Leaf("GridField")),
                                              Pair(CID_KEY, Leaf(c))>>)>>))>>),
        Dict(<<Pair("#t", Leaf("TextField")), Pair(CID_KEY, Leaf(c))>>)}
GridForms ==
    {Dict(<<Pair("ui", Dict(<<Pair("#t", Leaf("FormLayout")), Pair("contents", List(comps))>>))>>) :
        comps \in UNION {{f \in [1..n -> UNION {GridShapes(k) : k \in 1..n}] :
                             \A k \in 1..n : f[k] \in GridShapes(k)} : n \in 0..MaxGridComps}}

InitFindGrid ==
    /\ fg_in \in [form : GridForms, index : (-1)..MaxGridIndex]
    /\ fg_out = <<>>
    /\ fg_pc = "init"
    /\ FormIdle /\ RecIdle /\ FindIdle /\ BuildIdle /\ GridIdle
    /\ AuthIdle /\ CacheIdle /\ PagingIdle /\ LoginIdle

FindGridByIndex ==
    /\ fg_pc = "init"
    /\ fg_out' = find_grid_by_index(fg_in.index, fg_in.form)
    /\ fg_pc' = "done"
    /\ UNCHANGED <<fg_in, formVars, recVars, findVars, buildVars, gridVars, authVars, cacheVars,
                   pagingVars, loginVars>>

NextFindGrid == FindGridByIndex
SpecFindGrid == InitFindGrid /\ [][NextFindGrid]_vars

\* the grids of a form: its nodes of type GridField or PagingGridLayout
GridsOf(form) ==
    {n \in NodesOf(form) : Get(n, "#t") \in {Leaf("PagingGridLayout"), Leaf("GridField")}}
\* the drawn forms list their grids in the order of their _cId
GridAt(form, index) ==
    CHOOSE g \in GridsOf(form) :
        Cardinality({h \in GridsOf(form) : \E j, k \in 1..MaxGridComps + 1 :
                        /\ j < k
                        /\ Get(h, CID_KEY).s = "c" \o IntLeaf(j).s
                        /\ Get(g, CID_KEY).s = "c" \o IntLeaf(k).s}) = index

\* C30: for 0 <= index < number of grids find_grid_by_index returns the grid
\* at that 0-based position, and for index >= number of grids it raises its
\* descriptive error (on a form without grids, "No grids found in form")
C30_GridByIndexOrDescriptiveError ==
    (fg_pc = "done" /\ fg_in.index >= 0) =>
        LET n == Cardinality(GridsOf(fg_in.form))
        IN IF fg_in.index < n
           THEN fg_out = GridFound(GridAt(fg_in.form, fg_in.index))
           ELSE fg_out.err = (IF n = 0 THEN "No grids found in form" ELSE "Index out of range")

\* the part of C30 that the code keeps: an index below the number of grids
\* gives the grid at that position, one above it the descriptive error
C30_GridByIndexOffTheEdge ==
    (fg_pc = "done" /\ fg_in.index >= 0) =>
        LET n == Cardinality(GridsOf(fg_in.form))
        IN /\ fg_in.index < n => fg_out = GridFound(GridAt(fg_in.form, fg_in.index))
           /\ (fg_in.index > n /\ n > 0) => fg_out.err = "Index out of range"

\* ---------------------------------------------------------------------------
\* what a verb may write to the snapshot (specification Spec)
\* ---------------------------------------------------------------------------

\* C29: the snapshot is modified by reconciliation only: a step of a verb
\* that reconciles no response (its search, its builder or the transport call
\* failed) leaves every node of the snapshot as it was, clicks on components
\* with a `link` included
C29_SnapshotWrittenByReconciliationOnly ==
    [][state' # state => Reconciled(outcome') /\ resp' # TransportFailure]_vars

\* the part of C29 that the code keeps: a click whose transport call failed
\* leaves the snapshot of before the verb
C29_ClickTransportFailureKeepsSnapshot ==
    (pc = "idle" /\ call.verb = "click" /\ outcome = "transport_failure") =>
        state = verb_start.state

====
